---- MODULE Spec2Model ----
(***************************************************************************)
(* Request queue and authorization state machine of the wallet background  *)
(* service: State (pending tables, authorization store, notification       *)
(* trigger) and the Extension command handlers that resolve the requests.  *)
(***************************************************************************)
EXTENDS Integers, Sequences, FiniteSets, TLC

\* ------------------------------------------------------------------ bounds
\* number of request ids getId hands out in one run
MaxId == 2
\* number of clock ticks (Date.now advances) in one run
MaxTime == 2
\* number of dids.sign.approve commands suspended on the store lookup at once
MaxInflight == 2

\* ------------------------------------------------------- input universes
Undefined == "undefined"
\* an optional list argument that was not given
UndefinedList == <<Undefined>>

Accounts == {"a1", "a2"}
AccountLists == {<<>>, <<"a1", "a2">>}
Dids == {"d1"}
DidLists == {<<>>, <<"d1">>}
\* the password every stored key pair (account or DID) is encrypted with
GoodPassword == "good"
Passwords == {"", "good", "bad"}

\* a url is the list of its parts between '/' separators (url.split('/'))
UrlA1 == <<"https:", "", "a.com", "x">>
UrlA2 == <<"https:", "", "a.com", "y">>
UrlB == <<"http:", "", "b.org">>
UrlBad == <<"ftp:", "", "c.net">>
Urls == {UrlA1, UrlA2, UrlB, UrlBad}
Origins == {"a.com", "b.org"}
\* url the sign, DID-sign and metadata requests of the model arrive from
TabUrl == UrlB

MetaDefs == {[genesisHash |-> "g1", specVersion |-> 1]}
SignNotifications == {"extension", "popup"}

Ids == 1..MaxId

\* ------------------------------------------------------------ state
VARIABLES
  authUrls,                    \* State.#authUrls: origin -> AuthUrlInfo
  defaultAuthAccountSelection, \* State.defaultAuthAccountSelection
  stored,                      \* localStorage or workerStorageFallback: key -> JSON string
  authRequests,                \* State.#authRequests, in insertion order
  metaRequests,                \* State.#metaRequests
  signRequests,                \* State.#signRequests
  didSignRequests,             \* State.#didSignRequests
  authSubject,                 \* last value emitted on State.authSubject
  metaSubject,
  signSubject,
  didSignSubject,
  badge,                       \* text last given to action.setBadgeText
  notification,                \* State.#notification
  windows,                     \* State.#windows
  creating,                    \* chrome.windows.create calls whose callback is due
  openWins,                    \* notification windows that exist in the browser
  nextWin,                     \* next window id chrome hands out
  nextId,                      \* counter behind getId
  invocations,                 \* id -> calls made of the id's captured continuations
  pairs,                       \* accounts the keyring holds a pair for
  locked,                      \* account -> pair.isLocked
  cachedUnlocks,               \* Extension.#cachedUnlocks: account -> expiry
  now,                         \* Date.now()
  didsStore,                   \* DIDs with a record did:<did> in DidsStore
  didApprovals,                \* dids.sign.approve commands awaiting the store lookup
  didCall,                     \* the DID management command in progress
  metaStore,                   \* MetadataStore: genesisHash -> definition
  registry,                    \* definitions given to addMetadata
  metaLoaded,                  \* the startup pass over the metadata store has run
  startupLoad,                 \* the chrome.storage.local.get of the constructor
  connectedTabsUrl,            \* State.#connectedTabsUrl
  signatures,                  \* results request.sign has produced
  approvedOrigins,             \* history: origins approved by the user or loaded at startup
  asked,                       \* history: origins asked since their last authorize.remove
  askedOpen,                   \* history: same, also reset by deleting the request
  lastCmd                      \* the last command and its outcome

vars == <<authUrls, defaultAuthAccountSelection, stored, authRequests, metaRequests,
          signRequests, didSignRequests, authSubject, metaSubject, signSubject,
          didSignSubject, badge, notification, windows, creating, openWins, nextWin,
          nextId, invocations, pairs, locked, cachedUnlocks, now, didsStore,
          didApprovals, didCall, metaStore, registry, metaLoaded, startupLoad,
          connectedTabsUrl, signatures,
          approvedOrigins,
          asked, askedOpen, lastCmd>>

storeVars == <<authUrls, defaultAuthAccountSelection, stored>>
tableVars == <<authRequests, metaRequests, signRequests, didSignRequests>>
subjectVars == <<authSubject, metaSubject, signSubject, didSignSubject>>
windowVars == <<notification, windows, creating, openWins, nextWin>>
keyringVars == <<pairs, locked, cachedUnlocks>>
\* the metadata store, with the two callbacks of the constructor and the
\* connected tabs, which only their own steps change
metaVars == <<metaStore, registry, metaLoaded, startupLoad, connectedTabsUrl>>
historyVars == <<approvedOrigins, asked, askedOpen>>

\* ------------------------------------------------------------ helpers
Range(s) == {s[i] : i \in 1..Len(s)}

Has(table, key) == key \in DOMAIN table
Put(table, key, value) ==
  [k \in (DOMAIN table) \cup {key} |-> IF k = key THEN value ELSE table[k]]
DelMutant(table, key) == [k \in {} |-> 0]
Del(table, key) == [k \in (DOMAIN table) \ {key} |-> table[k]]
EmptyTable == [k \in {} |-> 0]

\* lookup in a pending table (this.#xRequests[id])
HasReq(reqs, id) == \E i \in 1..Len(reqs) : reqs[i].id = id
GetReq(reqs, id) == reqs[CHOOSE i \in 1..Len(reqs) : reqs[i].id = id]
\* delete this.#xRequests[id]
DeleteReqMutant(reqs, id) == reqs
DeleteReq(reqs, id) == SelectSeq(reqs, LAMBDA r : r.id # id)

FilterMutant(list, address) == <<>>
Filter(list, address) == SelectSeq(list, LAMBDA a : a # address)

\* JSON.stringify / JSON.parse of the two persisted values
Stringify(value) == <<"json", value>>
Parse(string) == string[2]

AUTH_URLS_KEY == "authUrls"
DEFAULT_AUTH_ACCOUNTS == "defaultAuthAccounts"

\* readStored: localStorage.getItem(key) || fallback
readStored(store, key, fallback) ==
  IF Has(store, key) THEN store[key] ELSE fallback

\* writeStored: localStorage.setItem(key, value)
writeStored(store, key, value) == Put(store, key, value)

\* stripUrl: the scheme assertion
ValidUrlMutant(url) == TRUE
ValidUrl(url) ==
  /\ Len(url) > 0
  /\ url[1] \in {"http:", "https:", "ipfs:", "ipns:"}

\* stripUrl: url.split('/')[2]
stripUrl(url) == IF Len(url) >= 3 THEN url[3] ELSE Undefined

\* updateIcon: the badge text
BadgeTextMutant(authCount, metaCount, signCount) ==
  IF metaCount # 0 THEN "Meta"
  ELSE IF authCount # 0 THEN "Auth"
  ELSE IF signCount # 0 THEN ToString(signCount)
  ELSE ""
BadgeText(authCount, metaCount, signCount) ==
  IF authCount # 0 THEN "Auth"
  ELSE IF metaCount # 0 THEN "Meta"
  ELSE IF signCount # 0 THEN ToString(signCount)
  ELSE ""

\* allAuthRequests etc.: the public projection of a pending table
allAuthRequests(reqs) ==
  [i \in 1..Len(reqs) |-> [id |-> reqs[i].id, request |-> reqs[i].request, url |-> reqs[i].url]]
allMetaRequests(reqs) ==
  [i \in 1..Len(reqs) |-> [id |-> reqs[i].id, request |-> reqs[i].request, url |-> reqs[i].url]]
allSignRequestsMutant(reqs) ==
  [i \in 1..Len(reqs) |->
     [account |-> reqs[Len(reqs) + 1 - i].account, id |-> reqs[Len(reqs) + 1 - i].id,
      request |-> reqs[Len(reqs) + 1 - i].request, url |-> reqs[Len(reqs) + 1 - i].url]]
allSignRequests(reqs) ==
  [i \in 1..Len(reqs) |-> [account |-> reqs[i].account, id |-> reqs[i].id,
                           request |-> reqs[i].request, url |-> reqs[i].url]]
allDidSignRequests(reqs) ==
  [i \in 1..Len(reqs) |-> [did |-> reqs[i].did, id |-> reqs[i].id,
                           request |-> reqs[i].request, url |-> reqs[i].url]]

\* a call of one of the continuations captured for an id.  pendingAtCall
\* tells whether the entry was still in its table when the caller's promise
\* function ran, persistedAtCall whether the persisted authorization table
\* held the request's origin at that moment.
Call(fn, val, pendingAtCall, persistedAtCall) ==
  [fn |-> fn, val |-> val, pendingAtCall |-> pendingAtCall,
   persistedAtCall |-> persistedAtCall]

Invoke(inv, id, call) == [inv EXCEPT ![id] = Append(@, call)]

Cmd(op, id, ok, err, val) == [op |-> op, id |-> id, ok |-> ok, err |-> err, val |-> val]

NotFound == "Unable to find request"
DuplicateRequest == "has a pending authorization request"
DecodeError == "Unable to decode using the supplied passphrase"
DidNotFoundRequest == "Unable to find DID signing request"

\* no DID management command is in progress
IdleCall ==
  [pc |-> "idle", account |-> "", did |-> "", unlocked |-> FALSE, failed |-> FALSE,
   error |-> "", accountPassword |-> "", didPassword |-> "", records |-> {}]

\* ------------------------------------------------------------ construction
\* what an earlier run can have left in localStorage
PersistedEntry ==
  [authorizedAccounts |-> <<"a1">>, authorizedDids |-> <<>>, count |-> 0,
   id |-> "b.org", origin |-> "app", url |-> UrlB]
InitialStorage ==
  { EmptyTable,
    [k \in {AUTH_URLS_KEY, DEFAULT_AUTH_ACCOUNTS} |->
       IF k = AUTH_URLS_KEY
         THEN Stringify([o \in {"b.org"} |-> PersistedEntry])
         ELSE Stringify(<<"a1">>)] }

\* no chrome.storage.local.get is awaited
NoLoad == [pending |-> FALSE, items |-> EmptyTable]

\* the constructor: meta is what the metadata store holds, storage what
\* readStored reads, load the chrome.storage.local.get it has issued
InitState(meta, storage, load) ==
  /\ stored = storage
  /\ authUrls = Parse(readStored(stored, AUTH_URLS_KEY, Stringify(EmptyTable)))
  /\ defaultAuthAccountSelection =
       Parse(readStored(stored, DEFAULT_AUTH_ACCOUNTS, Stringify(<<>>)))
  /\ authRequests = <<>>
  /\ metaRequests = <<>>
  /\ signRequests = <<>>
  /\ didSignRequests = <<>>
  /\ authSubject = <<>>
  /\ metaSubject = <<>>
  /\ signSubject = <<>>
  /\ didSignSubject = <<>>
  /\ badge = ""
  /\ notification = "popup"
  /\ windows = <<>>
  /\ creating = 0
  /\ openWins = {}
  /\ nextWin = 1
  /\ nextId = 1
  /\ invocations = [i \in Ids |-> <<>>]
  /\ pairs = Accounts
  /\ locked = [a \in Accounts |-> TRUE]
  /\ cachedUnlocks = [a \in Accounts |-> 0]
  /\ now = 1
  /\ didsStore = Dids
  /\ didApprovals = {}
  /\ didCall = IdleCall
  /\ metaStore = meta
  /\ registry = EmptyTable
  /\ metaLoaded = FALSE
  /\ startupLoad = load
  /\ connectedTabsUrl = <<>>
  /\ signatures = {}
  /\ approvedOrigins = DOMAIN authUrls
  /\ asked = {}
  /\ askedOpen = {}
  /\ lastCmd = Cmd("init", 0, TRUE, "", <<>>)

\* a fresh installation: nothing in the metadata store
Init == \E storage \in InitialStorage : InitState(EmptyTable, storage, NoLoad)

\* ------------------------------------------------------------ notification trigger
\* popupClose: every tracked window is removed and the list is emptied
popupClose ==
  /\ openWins' = openWins \ Range(windows)
  /\ windows' = <<>>

\* popupOpen: chrome.windows.create is called unless notification is 'extension'
popupOpen ==
  /\ creating' = IF notification # "extension" THEN creating + 1 ELSE creating
  /\ UNCHANGED <<notification, windows, openWins, nextWin>>

\* updateIcon(shouldClose), given the pending tables it counts
updateIcon(a, m, s, d, shouldClose) ==
  LET text == BadgeText(Len(a), Len(m), Len(s) + Len(d))
  IN /\ badge' = text
     /\ IF shouldClose /\ text = ""
          THEN popupClose
          ELSE UNCHANGED <<windows, openWins>>

\* the callback chrome.windows.create was given, with a window or without
WindowCreated(isWindow) ==
  /\ creating > 0
  /\ creating' = creating - 1
  /\ IF isWindow
       THEN /\ windows' = Append(windows, nextWin)
            /\ openWins' = openWins \cup {nextWin}
            /\ nextWin' = nextWin + 1
       ELSE UNCHANGED <<windows, openWins, nextWin>>
  /\ lastCmd' = Cmd("windowCreated", 0, TRUE, "", <<>>)
  /\ UNCHANGED <<storeVars, tableVars, subjectVars, badge, notification, nextId,
                 invocations, keyringVars, now, didsStore, didApprovals, didCall, metaVars,
                 signatures, historyVars>>

setNotification(value) ==
  /\ notification' = value
  /\ lastCmd' = Cmd("setNotification", 0, TRUE, "", <<>>)
  /\ UNCHANGED <<storeVars, tableVars, subjectVars, badge, windows, creating,
                 openWins, nextWin, nextId, invocations, keyringVars, now, didsStore,
                 didApprovals, didCall, metaVars, signatures, historyVars>>

\* ------------------------------------------------------------ authorize
\* authorizeUrl: a pending request of the same stripped url exists
isDuplicateMutant(reqs, idStr) == FALSE
isDuplicate(reqs, idStr) == \E i \in 1..Len(reqs) : reqs[i].idStr = idStr

\* authorizeUrl: this url was seen in the past
seenBeforeMutant(urls, idStr) == FALSE
seenBefore(urls, idStr) == Has(urls, idStr)

\* authComplete.complete: the entry written for the request
AuthEntryMutant(req, authorizedAccounts, authorizedDids) ==
  [authorizedAccounts |-> authorizedAccounts, authorizedDids |-> <<>>,
   count |-> 0, id |-> req.idStr, origin |-> req.request, url |-> req.url]
AuthEntry(req, authorizedAccounts, authorizedDids) ==
  [authorizedAccounts |-> authorizedAccounts, authorizedDids |-> authorizedDids,
   count |-> 0, id |-> req.idStr, origin |-> req.request, url |-> req.url]

\* authComplete.complete: this.#authUrls[this.stripUrl(url)] = entry
StoreEntryMutant(urls, key, entry) == urls
StoreEntry(urls, key, entry) == Put(urls, key, entry)

\* saveCurrentAuthList
saveCurrentAuthListMutant(store, urls) == store
saveCurrentAuthList(store, urls) == writeStored(store, AUTH_URLS_KEY, Stringify(urls))

\* saveDefaultAuthAccounts
saveDefaultAuthAccounts(store, list) ==
  writeStored(store, DEFAULT_AUTH_ACCOUNTS, Stringify(list))

\* the persisted authorization table
StoredAuthUrls(store) == Parse(readStored(store, AUTH_URLS_KEY, Stringify(EmptyTable)))
StoredDefaultAuth(store) == Parse(readStored(store, DEFAULT_AUTH_ACCOUNTS, Stringify(<<>>)))

authorizeUrl(url) ==
  LET idStr == stripUrl(url) IN
  IF ~ValidUrl(url)
    THEN /\ lastCmd' = Cmd("authorizeUrl", 0, FALSE, "Invalid url", [url |-> url])
         /\ UNCHANGED <<storeVars, tableVars, subjectVars, badge, windowVars, nextId,
                        invocations, keyringVars, now, didsStore, didApprovals, didCall,
                        metaVars, signatures, historyVars>>
  ELSE IF isDuplicate(authRequests, idStr)
    THEN /\ lastCmd' = Cmd("authorizeUrl", 0, FALSE, DuplicateRequest, [url |-> url])
         /\ UNCHANGED <<storeVars, tableVars, subjectVars, badge, windowVars, nextId,
                        invocations, keyringVars, now, didsStore, didApprovals, didCall,
                        metaVars, signatures, historyVars>>
  ELSE IF seenBefore(authUrls, idStr)
    THEN /\ lastCmd' = Cmd("authorizeUrl", 0, TRUE, "",
                           [authorizedAccounts |-> <<>>, authorizedDids |-> <<>>,
                            result |-> FALSE, url |-> url])
         /\ UNCHANGED <<storeVars, tableVars, subjectVars, badge, windowVars, nextId,
                        invocations, keyringVars, now, didsStore, didApprovals, didCall,
                        metaVars, signatures, historyVars>>
  ELSE
    LET id == nextId
        reqs == Append(authRequests,
                       [id |-> id, idStr |-> idStr, request |-> "app", url |-> url])
    IN /\ nextId <= MaxId
       /\ nextId' = nextId + 1
       /\ authRequests' = reqs
       /\ authSubject' = allAuthRequests(reqs)
       /\ updateIcon(reqs, metaRequests, signRequests, didSignRequests, FALSE)
       /\ popupOpen
       /\ asked' = asked \cup {idStr}
       /\ askedOpen' = askedOpen \cup {idStr}
       /\ lastCmd' = Cmd("authorizeUrl", id, TRUE, "enqueued", [url |-> url])
       /\ UNCHANGED <<storeVars, metaRequests, signRequests, didSignRequests,
                      metaSubject, signSubject, didSignSubject, invocations,
                      keyringVars, now, didsStore, didApprovals, didCall, metaVars,
                      signatures, approvedOrigins>>

ensureUrlAuthorized(url) ==
  /\ lastCmd' =
       IF ~ValidUrl(url) THEN Cmd("ensureUrlAuthorized", 0, FALSE, "Invalid url", url)
       ELSE IF ~Has(authUrls, stripUrl(url))
         THEN Cmd("ensureUrlAuthorized", 0, FALSE, "has not been enabled yet", url)
       ELSE Cmd("ensureUrlAuthorized", 0, TRUE, "", url)
  /\ UNCHANGED <<storeVars, tableVars, subjectVars, badge, windowVars, nextId,
                 invocations, keyringVars, now, didsStore, didApprovals, didCall, metaVars,
                 signatures, historyVars>>

\* authComplete: complete(authorizedAccounts, authorizedDids), then the caller's
\* promise function fn with val
authCompleteMutant(id, fn, authorizedAccounts, authorizedDids, val) ==
  LET req == GetReq(authRequests, id)
      key == stripUrl(req.url)
      urls == StoreEntry(authUrls, key, AuthEntry(req, authorizedAccounts, authorizedDids))
      stored1 == saveCurrentAuthList(stored, urls)
      stored2 == saveDefaultAuthAccounts(stored1, authorizedAccounts)
      reqs == DeleteReq(authRequests, id)
  IN /\ authUrls' = urls
     /\ stored' = stored2
     /\ defaultAuthAccountSelection' = defaultAuthAccountSelection
     /\ authRequests' = reqs
     /\ authSubject' = allAuthRequests(reqs)
     /\ updateIcon(reqs, metaRequests, signRequests, didSignRequests, TRUE)
     /\ invocations' = Invoke(invocations, id,
                              Call(fn, val, HasReq(reqs, id), Has(StoredAuthUrls(stored2), key)))
authComplete(id, fn, authorizedAccounts, authorizedDids, val) ==
  LET req == GetReq(authRequests, id)
      key == stripUrl(req.url)
      urls == StoreEntry(authUrls, key, AuthEntry(req, authorizedAccounts, authorizedDids))
      stored1 == saveCurrentAuthList(stored, urls)
      stored2 == saveDefaultAuthAccounts(stored1, authorizedAccounts)
      reqs == DeleteReq(authRequests, id)
  IN /\ authUrls' = urls
     /\ stored' = stored2
     /\ defaultAuthAccountSelection' = authorizedAccounts
     /\ authRequests' = reqs
     /\ authSubject' = allAuthRequests(reqs)
     /\ updateIcon(reqs, metaRequests, signRequests, didSignRequests, TRUE)
     /\ invocations' = Invoke(invocations, id,
                              Call(fn, val, HasReq(reqs, id), Has(StoredAuthUrls(stored2), key)))

\* pri(authorize.approve)
authorizeApprove(id, authorizedAccounts, authorizedDids) ==
  IF ~HasReq(authRequests, id)
    THEN /\ lastCmd' = Cmd("authorizeApprove", id, FALSE, NotFound, <<>>)
         /\ UNCHANGED <<storeVars, tableVars, subjectVars, badge, windowVars, nextId,
                        invocations, keyringVars, now, didsStore, didApprovals, didCall,
                        metaVars, signatures, historyVars>>
    ELSE /\ authComplete(id, "resolve", authorizedAccounts, authorizedDids,
                         [authorizedAccounts |-> authorizedAccounts,
                          authorizedDids |-> authorizedDids, result |-> TRUE])
         /\ approvedOrigins' = approvedOrigins \cup {GetReq(authRequests, id).idStr}
         /\ lastCmd' = Cmd("authorizeApprove", id, TRUE, "",
                           [origin |-> GetReq(authRequests, id).idStr,
                            authorizedAccounts |-> authorizedAccounts,
                            authorizedDids |-> authorizedDids])
         /\ UNCHANGED <<metaRequests, signRequests, didSignRequests, metaSubject,
                        signSubject, didSignSubject, notification, creating, nextWin,
                        nextId, keyringVars, now, didsStore, didApprovals, didCall, metaVars,
                        signatures, asked, askedOpen>>

\* the reject continuation authComplete gave the pending authorize request
authReject(id) ==
  /\ HasReq(authRequests, id)
  /\ authComplete(id, "reject", <<>>, <<>>, "Rejected")
  /\ lastCmd' = Cmd("authReject", id, TRUE, "",
                    [origin |-> GetReq(authRequests, id).idStr])
  /\ UNCHANGED <<metaRequests, signRequests, didSignRequests, metaSubject,
                 signSubject, didSignSubject, notification, creating, nextWin,
                 nextId, keyringVars, now, didsStore, didApprovals, didCall, metaVars,
                 signatures, historyVars>>

\* pri(authorize.delete.request)
deleteAuthRequestMutant(requestId) ==
  LET reqs == DeleteReq(authRequests, requestId) IN
  /\ authRequests' = reqs
  /\ authSubject' = authSubject
  /\ updateIcon(reqs, metaRequests, signRequests, didSignRequests, TRUE)
  /\ askedOpen' = IF HasReq(authRequests, requestId)
                    THEN askedOpen \ {GetReq(authRequests, requestId).idStr}
                    ELSE askedOpen
  /\ lastCmd' = Cmd("deleteAuthRequest", requestId, TRUE, "",
                    [origin |-> IF HasReq(authRequests, requestId)
                                  THEN GetReq(authRequests, requestId).idStr
                                  ELSE Undefined])
  /\ UNCHANGED <<storeVars, metaRequests, signRequests, didSignRequests, metaSubject,
                 signSubject, didSignSubject, notification, creating, nextWin, nextId,
                 invocations, keyringVars, now, didsStore, didApprovals, didCall, metaVars,
                 signatures, approvedOrigins, asked>>
deleteAuthRequest(requestId) ==
  LET reqs == DeleteReq(authRequests, requestId) IN
  /\ authRequests' = reqs
  /\ authSubject' = allAuthRequests(reqs)
  /\ updateIcon(reqs, metaRequests, signRequests, didSignRequests, TRUE)
  /\ askedOpen' = IF HasReq(authRequests, requestId)
                    THEN askedOpen \ {GetReq(authRequests, requestId).idStr}
                    ELSE askedOpen
  /\ lastCmd' = Cmd("deleteAuthRequest", requestId, TRUE, "",
                    [origin |-> IF HasReq(authRequests, requestId)
                                  THEN GetReq(authRequests, requestId).idStr
                                  ELSE Undefined])
  /\ UNCHANGED <<storeVars, metaRequests, signRequests, didSignRequests, metaSubject,
                 signSubject, didSignSubject, notification, creating, nextWin, nextId,
                 invocations, keyringVars, now, didsStore, didApprovals, didCall, metaVars,
                 signatures, approvedOrigins, asked>>

\* pri(authorize.remove)
removeAuthorization(url) ==
  IF ~Has(authUrls, url)
    THEN /\ lastCmd' = Cmd("removeAuthorization", 0, FALSE, "is not known", [url |-> url])
         /\ UNCHANGED <<storeVars, tableVars, subjectVars, badge, windowVars, nextId,
                        invocations, keyringVars, now, didsStore, didApprovals, didCall,
                        metaVars, signatures, historyVars>>
    ELSE LET urls == Del(authUrls, url) IN
         /\ authUrls' = urls
         /\ stored' = saveCurrentAuthList(stored, urls)
         /\ approvedOrigins' = approvedOrigins \ {url}
         /\ asked' = asked \ {url}
         /\ askedOpen' = askedOpen \ {url}
         /\ lastCmd' = Cmd("removeAuthorization", 0, TRUE, "", [url |-> url, list |-> urls])
         /\ UNCHANGED <<defaultAuthAccountSelection, tableVars, subjectVars, badge,
                        windowVars, nextId, invocations, keyringVars, now, didsStore,
                        didApprovals, didCall, metaVars, signatures>>

\* updateAuthorizedAccounts: one element of the diff applied to the table
ApplyDiffMutant(urls, diff) ==
  Put(urls, diff[1],
      [urls[diff[1]] EXCEPT !.authorizedAccounts = diff[2],
                            !.authorizedDids = IF diff[3] # UndefinedList THEN diff[3] ELSE <<>>])
ApplyDiff(urls, diff) ==
  Put(urls, diff[1],
      [urls[diff[1]] EXCEPT !.authorizedAccounts = diff[2],
                            !.authorizedDids = IF diff[3] # UndefinedList THEN diff[3] ELSE @])

\* updateAuthorizedAccounts: the forEach over the diff.  The result is the
\* table after the longest prefix of the diff that names known origins, and
\* whether the loop ran to its end (it throws at the first unknown origin).
RECURSIVE ApplyDiffs(_, _)
ApplyDiffs(urls, diffs) ==
  IF diffs = <<>> THEN [urls |-> urls, done |-> TRUE]
  ELSE IF ~Has(urls, Head(diffs)[1]) THEN [urls |-> urls, done |-> FALSE]
  ELSE ApplyDiffs(ApplyDiff(urls, Head(diffs)), Tail(diffs))

\* pri(authorize.update)
authorizeUpdateMutant(url, authorizedAccounts, authorizedDids) ==
  LET res == IF Has(authUrls, url)
               THEN ApplyDiffs(authUrls, <<<<url, authorizedAccounts, authorizedDids>>>>)
               ELSE [urls |-> Put(authUrls, url,
                                  [authorizedAccounts |-> authorizedAccounts,
                                   authorizedDids |-> <<>>, count |-> 0, id |-> url,
                                   origin |-> "app", url |-> UrlA1]),
                     done |-> TRUE] IN
  /\ authUrls' = res.urls
  /\ stored' = IF res.done THEN saveCurrentAuthList(stored, res.urls) ELSE stored
  /\ lastCmd' = Cmd("authorizeUpdate", 0, res.done, IF res.done THEN "" ELSE "TypeError",
                    [url |-> url, authorizedAccounts |-> authorizedAccounts,
                     authorizedDids |-> authorizedDids])
  /\ UNCHANGED <<defaultAuthAccountSelection, tableVars, subjectVars, badge,
                 windowVars, nextId, invocations, keyringVars, now, didsStore,
                 didApprovals, didCall, metaVars, signatures, historyVars>>
authorizeUpdate(url, authorizedAccounts, authorizedDids) ==
  LET res == ApplyDiffs(authUrls, <<<<url, authorizedAccounts, authorizedDids>>>>) IN
  /\ authUrls' = res.urls
  /\ stored' = IF res.done THEN saveCurrentAuthList(stored, res.urls) ELSE stored
  /\ lastCmd' = Cmd("authorizeUpdate", 0, res.done, IF res.done THEN "" ELSE "TypeError",
                    [url |-> url, authorizedAccounts |-> authorizedAccounts,
                     authorizedDids |-> authorizedDids])
  /\ UNCHANGED <<defaultAuthAccountSelection, tableVars, subjectVars, badge,
                 windowVars, nextId, invocations, keyringVars, now, didsStore,
                 didApprovals, didCall, metaVars, signatures, historyVars>>

\* pri(authorize.list); the outcome also tells which origin the command
\* right before it updated, if it was a successful authorize.update
getAuthList ==
  /\ lastCmd' = Cmd("getAuthList", 0, TRUE, "",
                    [list |-> authUrls,
                     updated |-> IF lastCmd.op = "authorizeUpdate" /\ lastCmd.ok
                                   THEN lastCmd.val.url ELSE Undefined])
  /\ UNCHANGED <<storeVars, tableVars, subjectVars, badge, windowVars, nextId,
                 invocations, keyringVars, now, didsStore, didApprovals, didCall, metaVars,
                 signatures, historyVars>>

\* accountsForget: the diff prepared from authUrls, in the order of its keys
RECURSIVE ForgetDiff(_, _, _)
ForgetDiff(urls, keys, address) ==
  IF keys = {} THEN <<>>
  ELSE LET k == CHOOSE x \in keys : TRUE
           rest == ForgetDiff(urls, keys \ {k}, address)
       IN IF address \in Range(urls[k].authorizedAccounts)
            THEN <<<<k, Filter(urls[k].authorizedAccounts, address), UndefinedList>>>> \o rest
            ELSE rest

\* pri(accounts.forget)
accountsForget(address) ==
  LET res == ApplyDiffs(authUrls, ForgetDiff(authUrls, DOMAIN authUrls, address))
      stored1 == saveCurrentAuthList(stored, res.urls)
      newDefault == Filter(defaultAuthAccountSelection, address)
  IN /\ authUrls' = res.urls
     /\ defaultAuthAccountSelection' = newDefault
     /\ stored' = saveDefaultAuthAccounts(stored1, newDefault)
     /\ pairs' = pairs \ {address}
     /\ lastCmd' = Cmd("accountsForget", 0, TRUE, "", address)
     /\ UNCHANGED <<tableVars, subjectVars, badge, windowVars, nextId, invocations,
                    locked, cachedUnlocks, now, didsStore, didApprovals, didCall, metaVars,
                    signatures, historyVars>>

\* ------------------------------------------------------------ metadata
\* injectMetadata
injectMetadata(url, request) ==
  LET id == nextId
      reqs == Append(metaRequests, [id |-> id, request |-> request, url |-> url])
  IN /\ nextId <= MaxId
     /\ nextId' = nextId + 1
     /\ metaRequests' = reqs
     /\ metaSubject' = allMetaRequests(reqs)
     /\ updateIcon(authRequests, reqs, signRequests, didSignRequests, FALSE)
     /\ popupOpen
     /\ lastCmd' = Cmd("injectMetadata", id, TRUE, "enqueued", url)
     /\ UNCHANGED <<storeVars, authRequests, signRequests, didSignRequests,
                    authSubject, signSubject, didSignSubject, invocations,
                    keyringVars, now, didsStore, didApprovals, didCall, metaVars,
                    signatures, historyVars>>

\* metaComplete: complete(), then the caller's promise function fn with val
metaCompleteMutant(id, fn, val, saved) ==
  /\ metaRequests' = <<>>
  /\ metaSubject' = allMetaRequests(<<>>)
  /\ updateIcon(authRequests, <<>>, signRequests, didSignRequests, TRUE)
  /\ invocations' = Invoke(invocations, id, Call(fn, val, FALSE, saved))
metaComplete(id, fn, val, saved) ==
  LET reqs == DeleteReq(metaRequests, id) IN
  /\ metaRequests' = reqs
  /\ metaSubject' = allMetaRequests(reqs)
  /\ updateIcon(authRequests, reqs, signRequests, didSignRequests, TRUE)
  /\ invocations' = Invoke(invocations, id, Call(fn, val, HasReq(reqs, id), saved))

\* saveMetadata: the definition is set under its genesis hash, in the
\* metadata store and by addMetadata in the registry
saveMetadataMutant(store, meta) == store
saveMetadata(store, meta) == Put(store, meta.genesisHash, meta)

\* pri(metadata.approve)
metadataApprove(id) ==
  IF ~HasReq(metaRequests, id)
    THEN /\ lastCmd' = Cmd("metadataApprove", id, FALSE, NotFound, <<>>)
         /\ UNCHANGED <<storeVars, tableVars, subjectVars, badge, windowVars, nextId,
                        invocations, keyringVars, now, didsStore, didApprovals, didCall,
                        metaVars, signatures, historyVars>>
    ELSE LET request == GetReq(metaRequests, id).request
             newStore == saveMetadata(metaStore, request)
             newRegistry == saveMetadata(registry, request)
         IN /\ metaStore' = newStore
            /\ registry' = newRegistry
            /\ metaComplete(id, "resolve", TRUE,
                            Has(newStore, request.genesisHash)
                              /\ newStore[request.genesisHash] = request
                              /\ Has(newRegistry, request.genesisHash))
            /\ lastCmd' = Cmd("metadataApprove", id, TRUE, "", <<>>)
            /\ UNCHANGED <<storeVars, metaLoaded, startupLoad, connectedTabsUrl,
                           authRequests, signRequests, didSignRequests,
                           authSubject, signSubject, didSignSubject, notification,
                           creating, nextWin, nextId, keyringVars, now, didsStore,
                           didApprovals, didCall, signatures, historyVars>>

\* pri(metadata.reject)
metadataReject(id) ==
  IF ~HasReq(metaRequests, id)
    THEN /\ lastCmd' = Cmd("metadataReject", id, FALSE, NotFound, <<>>)
         /\ UNCHANGED <<storeVars, tableVars, subjectVars, badge, windowVars, nextId,
                        invocations, keyringVars, now, didsStore, didApprovals, didCall,
                        metaVars, signatures, historyVars>>
    ELSE /\ metaComplete(id, "reject", "Rejected", FALSE)
         /\ lastCmd' = Cmd("metadataReject", id, TRUE, "", <<>>)
         /\ UNCHANGED <<storeVars, authRequests, signRequests, didSignRequests,
                        authSubject, signSubject, didSignSubject, notification,
                        creating, nextWin, nextId, keyringVars, now, didsStore,
                        didApprovals, didCall, metaVars, signatures, historyVars>>

\* ------------------------------------------------------------ signing
\* PASSWORD_EXPIRY_MS, in clock ticks
PASSWORD_EXPIRY_MS == 1

SignPayloads == {"0xdeadbeef"}

\* request.sign(registry, pair): the signature of the payload by the pair
SignResult(signer, payload) == [signer |-> signer, payload |-> payload]

\* pair.decodePkcs8(password) succeeds
decodePkcs8OkMutant(password) == TRUE
decodePkcs8Ok(password) == password = GoodPassword

\* State.sign
sign(url, payload, account) ==
  LET id == nextId
      reqs == Append(signRequests,
                     [account |-> account, id |-> id,
                      request |-> [address |-> account, payload |-> payload],
                      url |-> url])
  IN /\ nextId <= MaxId
     /\ nextId' = nextId + 1
     /\ signRequests' = reqs
     /\ signSubject' = allSignRequests(reqs)
     /\ updateIcon(authRequests, metaRequests, reqs, didSignRequests, FALSE)
     /\ popupOpen
     /\ lastCmd' = Cmd("sign", id, TRUE, "enqueued", url)
     /\ UNCHANGED <<storeVars, authRequests, metaRequests, didSignRequests,
                    authSubject, metaSubject, didSignSubject, invocations,
                    keyringVars, now, didsStore, didApprovals, didCall, metaVars,
                    signatures, historyVars>>

\* signComplete: complete(), then the caller's promise function fn with val
signCompleteMutant(id, fn, val) ==
  LET reqs == DeleteReq(signRequests, id) IN
  /\ signRequests' = reqs
  /\ signSubject' = allSignRequests(reqs)
  /\ updateIcon(authRequests, metaRequests, reqs, didSignRequests, TRUE)
  /\ invocations' = Invoke(invocations, id, Call("resolve", val, HasReq(reqs, id), FALSE))
signComplete(id, fn, val) ==
  LET reqs == DeleteReq(signRequests, id) IN
  /\ signRequests' = reqs
  /\ signSubject' = allSignRequests(reqs)
  /\ updateIcon(authRequests, metaRequests, reqs, didSignRequests, TRUE)
  /\ invocations' = Invoke(invocations, id, Call(fn, val, HasReq(reqs, id), FALSE))

signUntouched ==
  UNCHANGED <<signRequests, signSubject, badge, windows, openWins, invocations>>

\* refreshAccountPasswordCache: the saved expiry has passed
cacheExpiredMutant(cache, address, time) == FALSE
cacheExpired(cache, address, time) == cache[address] - time < 0

\* pri(signing.approve.password); signOk tells whether request.sign returns
signingApprovePassword(id, password, savePass, signOk) ==
  IF ~HasReq(signRequests, id)
    THEN /\ lastCmd' = Cmd("signingApprovePassword", id, FALSE, NotFound, [password |-> password, savePass |-> savePass])
         /\ UNCHANGED <<storeVars, tableVars, subjectVars, badge, windowVars, nextId,
                        invocations, keyringVars, now, didsStore, didApprovals, didCall,
                        metaVars, signatures, historyVars>>
  ELSE
    LET queued == GetReq(signRequests, id)
        address == queued.account
        expired == cacheExpired(cachedUnlocks, address, now)
        cache1 == IF expired THEN [cachedUnlocks EXCEPT ![address] = 0] ELSE cachedUnlocks
        isLocked1 == IF expired THEN TRUE ELSE locked[address]
        needed == isLocked1 /\ password = ""
        decoded == isLocked1 /\ decodePkcs8Ok(password)
        result == SignResult(address, queued.request.payload)
    IN
    /\ UNCHANGED <<storeVars, authRequests, metaRequests, didSignRequests,
                   authSubject, metaSubject, didSignSubject, notification, creating,
                   nextWin, nextId, pairs, now, didsStore, didApprovals, didCall, metaVars,
                   historyVars>>
    /\ IF address \notin pairs
         THEN \* reject(new Error('Unable to find pair')); return false
              /\ signComplete(id, "reject", "Unable to find pair")
              /\ lastCmd' = Cmd("signingApprovePassword", id, TRUE, "returned false", [password |-> password, savePass |-> savePass])
              /\ UNCHANGED <<locked, cachedUnlocks, signatures>>
       ELSE IF isLocked1 /\ ~decodePkcs8Ok(password)
         THEN \* pair.decodePkcs8(password) throws
              /\ IF needed
                   THEN signComplete(id, "reject", "Password needed to unlock the account")
                   ELSE signUntouched
              /\ cachedUnlocks' = cache1
              /\ locked' = [locked EXCEPT ![address] = TRUE]
              /\ lastCmd' = Cmd("signingApprovePassword", id, FALSE, DecodeError, [password |-> password, savePass |-> savePass])
              /\ UNCHANGED signatures
       ELSE IF ~signOk
         THEN \* request.sign throws
              /\ signUntouched
              /\ cachedUnlocks' = cache1
              /\ locked' = [locked EXCEPT ![address] = FALSE]
              /\ lastCmd' = Cmd("signingApprovePassword", id, FALSE, "sign failed", [password |-> password, savePass |-> savePass])
              /\ UNCHANGED signatures
       ELSE   /\ signatures' = signatures \cup {result}
              /\ cachedUnlocks' = IF savePass
                                    THEN [cache1 EXCEPT ![address] = now + PASSWORD_EXPIRY_MS]
                                    ELSE cache1
              /\ locked' = [locked EXCEPT ![address] = ~savePass]
              /\ signComplete(id, "resolve", result)
              /\ lastCmd' = Cmd("signingApprovePassword", id, TRUE, "", [password |-> password, savePass |-> savePass])

\* pri(signing.approve.signature)
signingApproveSignature(id, signature) ==
  IF ~HasReq(signRequests, id)
    THEN /\ lastCmd' = Cmd("signingApproveSignature", id, FALSE, NotFound, <<>>)
         /\ UNCHANGED <<storeVars, tableVars, subjectVars, badge, windowVars, nextId,
                        invocations, keyringVars, now, didsStore, didApprovals, didCall,
                        metaVars, signatures, historyVars>>
    ELSE /\ signComplete(id, "resolve", signature)
         /\ lastCmd' = Cmd("signingApproveSignature", id, TRUE, "", <<>>)
         /\ UNCHANGED <<storeVars, authRequests, metaRequests, didSignRequests,
                        authSubject, metaSubject, didSignSubject, notification,
                        creating, nextWin, nextId, keyringVars, now, didsStore,
                        didApprovals, didCall, metaVars, signatures, historyVars>>

\* pri(signing.cancel)
signingCancel(id) ==
  IF ~HasReq(signRequests, id)
    THEN /\ lastCmd' = Cmd("signingCancel", id, FALSE, NotFound, <<>>)
         /\ UNCHANGED <<storeVars, tableVars, subjectVars, badge, windowVars, nextId,
                        invocations, keyringVars, now, didsStore, didApprovals, didCall,
                        metaVars, signatures, historyVars>>
    ELSE /\ signComplete(id, "reject", "Cancelled")
         /\ lastCmd' = Cmd("signingCancel", id, TRUE, "", <<>>)
         /\ UNCHANGED <<storeVars, authRequests, metaRequests, didSignRequests,
                        authSubject, metaSubject, didSignSubject, notification,
                        creating, nextWin, nextId, keyringVars, now, didsStore,
                        didApprovals, didCall, metaVars, signatures, historyVars>>

\* pri(signing.isLocked)
signingIsLocked(id) ==
  /\ UNCHANGED <<storeVars, tableVars, subjectVars, badge, windowVars, nextId,
                 invocations, pairs, now, didsStore, didApprovals, didCall, metaVars,
                 signatures, historyVars>>
  /\ IF ~HasReq(signRequests, id)
       THEN /\ lastCmd' = Cmd("signingIsLocked", id, FALSE, NotFound, <<>>)
            /\ UNCHANGED <<locked, cachedUnlocks>>
     ELSE IF GetReq(signRequests, id).request.address \notin pairs
       THEN /\ lastCmd' = Cmd("signingIsLocked", id, FALSE, "Unable to find pair", <<>>)
            /\ UNCHANGED <<locked, cachedUnlocks>>
     ELSE LET address == GetReq(signRequests, id).request.address
              expired == cacheExpired(cachedUnlocks, address, now)
          IN /\ cachedUnlocks' = IF expired THEN [cachedUnlocks EXCEPT ![address] = 0]
                                            ELSE cachedUnlocks
             /\ locked' = IF expired THEN [locked EXCEPT ![address] = TRUE] ELSE locked
             /\ lastCmd' = Cmd("signingIsLocked", id, TRUE, "",
                               [isLocked |-> locked'[address],
                                remainingTime |-> IF expired THEN 0
                                                  ELSE cachedUnlocks[address] - now])

\* Date.now() advances
Tick ==
  /\ now <= MaxTime
  /\ now' = now + 1
  /\ lastCmd' = Cmd("tick", 0, TRUE, "", <<>>)
  /\ UNCHANGED <<storeVars, tableVars, subjectVars, badge, windowVars, nextId,
                 invocations, keyringVars, didsStore, didApprovals, didCall, metaVars,
                 signatures, historyVars>>

\* ------------------------------------------------------------ DID signing
\* State.didSign
didSign(url, payload, did) ==
  LET id == nextId
      reqs == Append(didSignRequests,
                     [did |-> did, id |-> id,
                      request |-> [address |-> did, payload |-> payload], url |-> url])
  IN /\ nextId <= MaxId
     /\ nextId' = nextId + 1
     /\ didSignRequests' = reqs
     /\ didSignSubject' = allDidSignRequests(reqs)
     /\ updateIcon(authRequests, metaRequests, signRequests, reqs, FALSE)
     /\ popupOpen
     /\ lastCmd' = Cmd("didSign", id, TRUE, "enqueued", url)
     /\ UNCHANGED <<storeVars, authRequests, metaRequests, signRequests,
                    authSubject, metaSubject, signSubject, invocations,
                    keyringVars, now, didsStore, didApprovals, didCall, metaVars,
                    signatures, historyVars>>

\* didSignComplete: complete(), then the caller's promise function fn with val
didSignComplete(id, fn, val) ==
  LET reqs == DeleteReq(didSignRequests, id) IN
  /\ didSignRequests' = reqs
  /\ didSignSubject' = allDidSignRequests(reqs)
  /\ updateIcon(authRequests, metaRequests, signRequests, reqs, TRUE)
  /\ invocations' = Invoke(invocations, id, Call(fn, val, HasReq(reqs, id), FALSE))

\* pri(dids.sign.approve), up to the await of the DidsStore lookup
didsSignApprove(id, password) ==
  /\ UNCHANGED <<storeVars, tableVars, subjectVars, badge, windowVars, nextId,
                 invocations, keyringVars, now, didsStore, didCall, metaVars, signatures,
                 historyVars>>
  /\ IF ~HasReq(didSignRequests, id)
       THEN /\ lastCmd' = Cmd("didsSignApprove", id, FALSE, DidNotFoundRequest, <<>>)
            /\ UNCHANGED didApprovals
       ELSE /\ Cardinality(didApprovals) < MaxInflight
            /\ [id |-> id, password |-> password,
                did |-> GetReq(didSignRequests, id).did,
                payload |-> GetReq(didSignRequests, id).request.payload] \notin didApprovals
            /\ didApprovals' = didApprovals \cup
                 {[id |-> id, password |-> password,
                   did |-> GetReq(didSignRequests, id).did,
                   payload |-> GetReq(didSignRequests, id).request.payload]}
            /\ lastCmd' = Cmd("didsSignApprove", id, TRUE, "awaiting", <<>>)

\* pri(dids.sign.approve), from the callback of the DidsStore lookup on
didsSignApproveResumeMutant(approval, signOk) ==
  LET id == approval.id
      result == SignResult(approval.did, approval.payload)
  IN
  /\ approval \in didApprovals
  /\ didApprovals' = didApprovals \ {approval}
  /\ UNCHANGED <<storeVars, authRequests, metaRequests, signRequests, authSubject,
                 metaSubject, signSubject, notification, creating, nextWin, nextId,
                 keyringVars, now, didsStore, didCall, metaVars, historyVars>>
  /\ IF FALSE
       THEN /\ lastCmd' = Cmd("didsSignApproveResume", id, FALSE, "DID not found", <<>>)
            /\ UNCHANGED <<didSignRequests, didSignSubject, badge, windows, openWins,
                           invocations, signatures>>
     ELSE IF ~decodePkcs8Ok(approval.password)
       THEN /\ didSignComplete(id, "reject", "Wrong DID password")
            /\ lastCmd' = Cmd("didsSignApproveResume", id, TRUE, "returned false", <<>>)
            /\ UNCHANGED signatures
     ELSE IF ~signOk
       THEN /\ lastCmd' = Cmd("didsSignApproveResume", id, FALSE, "sign failed", <<>>)
            /\ UNCHANGED <<didSignRequests, didSignSubject, badge, windows, openWins,
                           invocations, signatures>>
     ELSE   /\ signatures' = signatures \cup {result}
            /\ didSignComplete(id, "resolve", result)
            /\ lastCmd' = Cmd("didsSignApproveResume", id, TRUE, "", <<>>)
didsSignApproveResume(approval, signOk) ==
  LET id == approval.id
      result == SignResult(approval.did, approval.payload)
  IN
  /\ approval \in didApprovals
  /\ didApprovals' = didApprovals \ {approval}
  /\ UNCHANGED <<storeVars, authRequests, metaRequests, signRequests, authSubject,
                 metaSubject, signSubject, notification, creating, nextWin, nextId,
                 keyringVars, now, didsStore, didCall, metaVars, historyVars>>
  /\ IF approval.did \notin didsStore
       THEN /\ lastCmd' = Cmd("didsSignApproveResume", id, FALSE, "DID not found", <<>>)
            /\ UNCHANGED <<didSignRequests, didSignSubject, badge, windows, openWins,
                           invocations, signatures>>
     ELSE IF ~decodePkcs8Ok(approval.password)
       THEN /\ didSignComplete(id, "reject", "Wrong DID password")
            /\ lastCmd' = Cmd("didsSignApproveResume", id, TRUE, "returned false", <<>>)
            /\ UNCHANGED signatures
     ELSE IF ~signOk
       THEN /\ lastCmd' = Cmd("didsSignApproveResume", id, FALSE, "sign failed", <<>>)
            /\ UNCHANGED <<didSignRequests, didSignSubject, badge, windows, openWins,
                           invocations, signatures>>
     ELSE   /\ signatures' = signatures \cup {result}
            /\ didSignComplete(id, "resolve", result)
            /\ lastCmd' = Cmd("didsSignApproveResume", id, TRUE, "", <<>>)

\* pri(dids.sign.cancel)
didsSignCancel(id) ==
  IF ~HasReq(didSignRequests, id)
    THEN /\ lastCmd' = Cmd("didsSignCancel", id, FALSE, DidNotFoundRequest, <<>>)
         /\ UNCHANGED <<storeVars, tableVars, subjectVars, badge, windowVars, nextId,
                        invocations, keyringVars, now, didsStore, didApprovals, didCall,
                        metaVars, signatures, historyVars>>
    ELSE /\ didSignComplete(id, "reject", "Cancelled")
         /\ lastCmd' = Cmd("didsSignCancel", id, TRUE, "", <<>>)
         /\ UNCHANGED <<storeVars, authRequests, metaRequests, signRequests,
                        authSubject, metaSubject, signSubject, notification,
                        creating, nextWin, nextId, keyringVars, now, didsStore,
                        didApprovals, didCall, metaVars, signatures, historyVars>>

\* pri(dids.remove)
didsRemove(did) ==
  /\ didsStore' = didsStore \ {did}
  /\ lastCmd' = Cmd("didsRemove", 0, TRUE, "", did)
  /\ UNCHANGED <<storeVars, tableVars, subjectVars, badge, windowVars, nextId,
                 invocations, keyringVars, now, didApprovals, didCall, metaVars,
                 signatures, historyVars>>

\* ------------------------------------------------------------ DID creation
\* identifiers dids.create can derive from a fresh random key pair
NewDids == {"did:qsb:2"}

\* what the result callback of signAndSend can be given: no dispatch error
\* (the status is in-block or finalized), a module error, another error
NoDispatchError == [isModule |-> FALSE, section |-> "", name |-> "", text |-> ""]
DispatchErrors ==
  { [isModule |-> TRUE, section |-> "did", name |-> "DidAlreadyExists", text |-> ""],
    [isModule |-> TRUE, section |-> "", name |-> "Unknown", text |-> ""],
    [isModule |-> FALSE, section |-> "", name |-> "", text |-> "BadOrigin"] }

\* didsCreate: the message of the error the result callback rejects with
DecodeDispatchErrorMutant(e) == e.text
DecodeDispatchError(e) ==
  IF e.isModule
    THEN IF e.section # "" /\ e.name # "" THEN e.section \o "." \o e.name ELSE e.name
    ELSE e.text

\* what the steps of dids.create leave alone
didsCreateFrame ==
  UNCHANGED <<storeVars, tableVars, subjectVars, badge, windowVars, nextId,
              invocations, pairs, cachedUnlocks, now, didApprovals, metaVars,
              signatures, historyVars>>

\* pri(dids.create), up to the await of ApiPromise.create; did is the
\* identifier the key pair generated later will give
didsCreate(accountAddress, accountPassword, did) ==
  LET request == [account |-> accountAddress, did |-> did] IN
  /\ didCall.pc = "idle"
  /\ did \notin didsStore
  /\ didsCreateFrame
  /\ UNCHANGED didsStore
  /\ IF accountAddress \notin pairs
       THEN /\ lastCmd' = Cmd("didsCreate", 0, FALSE, "Unable to find signing account", request)
            /\ UNCHANGED <<locked, didCall>>
     ELSE IF locked[accountAddress] /\ accountPassword = ""
       THEN /\ lastCmd' = Cmd("didsCreate", 0, FALSE, "Password needed to unlock the account", request)
            /\ UNCHANGED <<locked, didCall>>
     ELSE IF locked[accountAddress] /\ ~decodePkcs8Ok(accountPassword)
       THEN /\ lastCmd' = Cmd("didsCreate", 0, FALSE, "Wrong password", request)
            /\ UNCHANGED <<locked, didCall>>
     ELSE   /\ locked' = [locked EXCEPT ![accountAddress] = FALSE]
            /\ didCall' = [IdleCall EXCEPT !.pc = "connecting", !.account = accountAddress,
                                           !.did = did, !.unlocked = locked[accountAddress],
                                           !.accountPassword = accountPassword]
            /\ lastCmd' = Cmd("didsCreate", 0, TRUE, "awaiting", request)

\* dids.create from the connection to the chain to the submission:
\* ApiPromise.create resolves or throws, the DID signature made locally
\* verifies or not, signAndSend subscribes or throws
didsCreateConnected(connectOk, signatureValid, submitOk) ==
  LET request == [account |-> didCall.account, did |-> didCall.did] IN
  /\ didCall.pc = "connecting"
  /\ didsCreateFrame
  /\ UNCHANGED didsStore
  /\ IF ~connectOk
       THEN /\ lastCmd' = Cmd("didsCreate", 0, FALSE, "connection failed", request)
            /\ didCall' = IdleCall
            /\ UNCHANGED locked
     ELSE IF ~signatureValid
       THEN /\ lastCmd' = Cmd("didsCreate", 0, FALSE,
                              "Invalid DID signature generated locally", request)
            /\ didCall' = IdleCall
            /\ UNCHANGED locked
     ELSE IF ~submitOk
       THEN \* catch: reject(error); finally: signerPair.lock(), await api.disconnect()
            /\ lastCmd' = Cmd("didsCreateConnected", 0, TRUE, "submission failed", request)
            /\ didCall' = [didCall EXCEPT !.pc = "disconnecting", !.failed = TRUE,
                                          !.error = "submission failed"]
            /\ locked' = [locked EXCEPT ![didCall.account] = TRUE]
     ELSE   /\ lastCmd' = Cmd("didsCreateConnected", 0, TRUE, "submitted", request)
            /\ didCall' = [didCall EXCEPT !.pc = "submitted"]
            /\ UNCHANGED locked

\* dids.create: the result callback of signAndSend, then the finally block
\* up to the await of api.disconnect
didsCreateResult(dispatchError) ==
  /\ didCall.pc = "submitted"
  /\ didsCreateFrame
  /\ UNCHANGED didsStore
  /\ didCall' = [didCall EXCEPT !.pc = "disconnecting",
                                !.failed = dispatchError # NoDispatchError,
                                !.error = IF dispatchError # NoDispatchError
                                            THEN DecodeDispatchError(dispatchError)
                                            ELSE ""]
  /\ locked' = [locked EXCEPT ![didCall.account] = TRUE]
  /\ lastCmd' = Cmd("didsCreateResult", 0, TRUE, "", dispatchError)

\* dids.create after api.disconnect: the error is thrown on, or the
\* encrypted key pair is written to the DID store and the record returned
didsCreateDoneMutant ==
  LET request == [account |-> didCall.account, did |-> didCall.did] IN
  /\ didCall.pc = "disconnecting"
  /\ didsCreateFrame
  /\ UNCHANGED locked
  /\ didCall' = IdleCall
  /\ IF didCall.failed
       THEN /\ lastCmd' = Cmd("didsCreate", 0, FALSE, didCall.error, request)
            /\ didsStore' = didsStore \cup {didCall.did}
       ELSE /\ didsStore' = didsStore \cup {didCall.did}
            /\ lastCmd' = Cmd("didsCreate", 0, TRUE, "", request)
didsCreateDone ==
  LET request == [account |-> didCall.account, did |-> didCall.did] IN
  /\ didCall.pc = "disconnecting"
  /\ didsCreateFrame
  /\ UNCHANGED locked
  /\ didCall' = IdleCall
  /\ IF didCall.failed
       THEN /\ lastCmd' = Cmd("didsCreate", 0, FALSE, didCall.error, request)
            /\ UNCHANGED didsStore
       ELSE /\ didsStore' = didsStore \cup {didCall.did}
            /\ lastCmd' = Cmd("didsCreate", 0, TRUE, "", request)

\* ------------------------------------------------------------ DID deactivation
\* pri(dids.deactivate), up to the await of the DidsStore lookup
didsDeactivate(accountAddress, accountPassword, did, didPassword) ==
  /\ didCall.pc = "idle"
  /\ didsCreateFrame
  /\ UNCHANGED <<didsStore, locked>>
  /\ didCall' = [IdleCall EXCEPT !.pc = "deactivateLookup", !.account = accountAddress,
                                 !.did = did, !.accountPassword = accountPassword,
                                 !.didPassword = didPassword]
  /\ lastCmd' = Cmd("didsDeactivate", 0, TRUE, "awaiting",
                    [account |-> accountAddress, did |-> did])

\* dids.deactivate from the callback of the DidsStore lookup to the await
\* of ApiPromise.create: the DID pair is decoded, the deactivation
\* signature is made and verified, the signing account is unlocked
didsDeactivateLookupMutant(signatureValid) ==
  LET request == [account |-> didCall.account, did |-> didCall.did]
      address == didCall.account
      error == IF didCall.did \notin didsStore THEN "DID not found"
               ELSE IF ~decodePkcs8Ok(didCall.didPassword) THEN "Wrong DID password"
               ELSE IF ~signatureValid
                 THEN "Invalid DID deactivation signature generated locally"
               ELSE IF address \notin pairs THEN "Unable to find signing account"
               ELSE IF locked[address] /\ didCall.accountPassword = ""
                 THEN "Password needed to unlock the account"
               ELSE IF locked[address] /\ ~decodePkcs8Ok(didCall.accountPassword)
                 THEN "Wrong password"
               ELSE ""
  IN
  /\ didCall.pc = "deactivateLookup"
  /\ didsCreateFrame
  /\ UNCHANGED didsStore
  /\ IF error # ""
       THEN /\ lastCmd' = Cmd("didsDeactivate", 0, FALSE, error, request)
            /\ didCall' = IdleCall
            /\ locked' = [locked EXCEPT ![address] = FALSE]
       ELSE /\ locked' = [locked EXCEPT ![address] = FALSE]
            /\ didCall' = [didCall EXCEPT !.pc = "deactivateConnecting",
                                          !.unlocked = locked[address]]
            /\ lastCmd' = Cmd("didsDeactivateLookup", 0, TRUE, "connecting", request)
didsDeactivateLookup(signatureValid) ==
  LET request == [account |-> didCall.account, did |-> didCall.did]
      address == didCall.account
      error == IF didCall.did \notin didsStore THEN "DID not found"
               ELSE IF ~decodePkcs8Ok(didCall.didPassword) THEN "Wrong DID password"
               ELSE IF ~signatureValid
                 THEN "Invalid DID deactivation signature generated locally"
               ELSE IF address \notin pairs THEN "Unable to find signing account"
               ELSE IF locked[address] /\ didCall.accountPassword = ""
                 THEN "Password needed to unlock the account"
               ELSE IF locked[address] /\ ~decodePkcs8Ok(didCall.accountPassword)
                 THEN "Wrong password"
               ELSE ""
  IN
  /\ didCall.pc = "deactivateLookup"
  /\ didsCreateFrame
  /\ UNCHANGED didsStore
  /\ IF error # ""
       THEN /\ lastCmd' = Cmd("didsDeactivate", 0, FALSE, error, request)
            /\ didCall' = IdleCall
            /\ UNCHANGED locked
       ELSE /\ locked' = [locked EXCEPT ![address] = FALSE]
            /\ didCall' = [didCall EXCEPT !.pc = "deactivateConnecting",
                                          !.unlocked = locked[address]]
            /\ lastCmd' = Cmd("didsDeactivateLookup", 0, TRUE, "connecting", request)

\* dids.deactivate from the connection to the chain to the submission
didsDeactivateConnected(connectOk, submitOk) ==
  LET request == [account |-> didCall.account, did |-> didCall.did] IN
  /\ didCall.pc = "deactivateConnecting"
  /\ didsCreateFrame
  /\ UNCHANGED didsStore
  /\ IF ~connectOk
       THEN /\ lastCmd' = Cmd("didsDeactivate", 0, FALSE, "connection failed", request)
            /\ didCall' = IdleCall
            /\ UNCHANGED locked
     ELSE IF ~submitOk
       THEN \* catch: reject(error); finally: signerPair.lock(), await api.disconnect()
            /\ lastCmd' = Cmd("didsDeactivateConnected", 0, TRUE, "submission failed", request)
            /\ didCall' = [didCall EXCEPT !.pc = "deactivateDisconnecting", !.failed = TRUE,
                                          !.error = "submission failed"]
            /\ locked' = [locked EXCEPT ![didCall.account] = TRUE]
     ELSE   /\ lastCmd' = Cmd("didsDeactivateConnected", 0, TRUE, "submitted", request)
            /\ didCall' = [didCall EXCEPT !.pc = "deactivateSubmitted"]
            /\ UNCHANGED locked

\* dids.deactivate: the result callback of signAndSend, then the finally
\* block up to the await of api.disconnect
didsDeactivateResult(dispatchError) ==
  /\ didCall.pc = "deactivateSubmitted"
  /\ didsCreateFrame
  /\ UNCHANGED didsStore
  /\ didCall' = [didCall EXCEPT !.pc = "deactivateDisconnecting",
                                !.failed = dispatchError # NoDispatchError,
                                !.error = IF dispatchError # NoDispatchError
                                            THEN DecodeDispatchError(dispatchError)
                                            ELSE ""]
  /\ locked' = [locked EXCEPT ![didCall.account] = TRUE]
  /\ lastCmd' = Cmd("didsDeactivateResult", 0, TRUE, "", dispatchError)

\* dids.deactivate after api.disconnect: the error is thrown on, or true
\* is returned
didsDeactivateDone ==
  /\ didCall.pc = "deactivateDisconnecting"
  /\ didsCreateFrame
  /\ UNCHANGED <<didsStore, locked>>
  /\ didCall' = IdleCall
  /\ lastCmd' = Cmd("didsDeactivate", 0, ~didCall.failed, didCall.error,
                    [account |-> didCall.account, did |-> didCall.did])

\* ------------------------------------------------------------ DID list
\* what the chain can tell about a DID: no record, an active record, a
\* deactivated record
ChainStatuses == {"none", "active", "deactivated"}

\* didsList: the records made from the metadata of the stored key pairs
LocalRecordsMutant(dids) == {[did |-> d, deactivated |-> "false"] : d \in dids}
LocalRecords(dids) == {[did |-> d, deactivated |-> "absent"] : d \in dids}

\* didsList: the records with the deactivated field added where the chain
\* has a record of the DID
WithStatus(dids, status) ==
  {[did |-> d,
    deactivated |-> IF status[d] = "none" THEN "absent"
                    ELSE IF status[d] = "deactivated" THEN "true" ELSE "false"] : d \in dids}

\* pri(dids.list), up to the callback of DidsStore.allMap
didsList ==
  /\ didCall.pc = "idle"
  /\ didsCreateFrame
  /\ UNCHANGED <<didsStore, locked>>
  /\ didCall' = [IdleCall EXCEPT !.pc = "listing", !.records = didsStore]
  /\ lastCmd' = Cmd("didsList", 0, TRUE, "awaiting", <<>>)

\* dids.list from the records on: the chain is connected and queried, or
\* one of the two fails
didsListDone(connectOk, queryOk, status) ==
  /\ didCall.pc = "listing"
  /\ status \in [didCall.records -> ChainStatuses]
  /\ didsCreateFrame
  /\ UNCHANGED <<didsStore, locked>>
  /\ didCall' = IdleCall
  /\ lastCmd' =
       IF didCall.records = {}
         THEN Cmd("didsList", 0, TRUE, "", [records |-> {}, chain |-> "not asked"])
       ELSE IF ~connectOk \/ ~queryOk
         THEN Cmd("didsList", 0, TRUE, "",
                  [records |-> LocalRecords(didCall.records), chain |-> "failed"])
       ELSE Cmd("didsList", 0, TRUE, "",
                [records |-> WithStatus(didCall.records, status), chain |-> "answered"])

\* ------------------------------------------------------------ specifications
\* inputs of the commands
BrokerUrls == {UrlA1}
BrokerAccountLists == {<<"a1", "a2">>}
BrokerDidLists == {<<"d1">>}
SignAccounts == {"a1"}
DidPasswords == {"good", "bad"}
UpdateAccountLists == {<<"a1">>}
UpdateDidLists == {<<"d1">>, UndefinedList}
ForgetAddresses == {"a1"}

\* The request broker: requests of the four kinds arrive and the commands
\* that resolve them are issued, for any id, in any order.
Next ==
  \/ \E url \in BrokerUrls : authorizeUrl(url)
  \/ \E id \in Ids, accounts \in BrokerAccountLists, dids \in BrokerDidLists :
       authorizeApprove(id, accounts, dids)
  \/ \E id \in Ids : authReject(id)
  \/ \E id \in Ids : deleteAuthRequest(id)
  \/ \E def \in MetaDefs : injectMetadata(TabUrl, def)
  \/ \E id \in Ids : metadataApprove(id)
  \/ \E id \in Ids : metadataReject(id)
  \/ \E payload \in SignPayloads, account \in SignAccounts : sign(TabUrl, payload, account)
  \/ \E id \in Ids, password \in Passwords, savePass \in BOOLEAN, signOk \in BOOLEAN :
       signingApprovePassword(id, password, savePass, signOk)
  \/ \E id \in Ids : signingApproveSignature(id, "0xsignature")
  \/ \E id \in Ids : signingCancel(id)
  \/ \E payload \in SignPayloads, did \in Dids : didSign(TabUrl, payload, did)
  \/ \E id \in Ids, password \in DidPasswords : didsSignApprove(id, password)
  \/ \E approval \in didApprovals, signOk \in BOOLEAN : didsSignApproveResume(approval, signOk)
  \/ \E id \in Ids : didsSignCancel(id)
  \/ \E did \in Dids : didsRemove(did)

Spec == Init /\ [][Next]_vars

\* The authorization store and the authorize requests: every command that
\* reads or writes the authorization table.
NextAuth ==
  \/ \E url \in Urls : authorizeUrl(url)
  \/ \E url \in Urls : ensureUrlAuthorized(url)
  \/ \E id \in Ids, accounts \in AccountLists, dids \in DidLists :
       authorizeApprove(id, accounts, dids)
  \/ \E id \in Ids : authReject(id)
  \/ \E id \in Ids : deleteAuthRequest(id)
  \/ \E origin \in Origins : removeAuthorization(origin)
  \/ \E origin \in Origins, accounts \in UpdateAccountLists, dids \in UpdateDidLists :
       authorizeUpdate(origin, accounts, dids)
  \/ \E address \in ForgetAddresses : accountsForget(address)
  \/ getAuthList

SpecAuth == Init /\ [][NextAuth]_vars

\* Signing with the keyring: sign requests, the unlock cache and the clock.
NextSign ==
  \/ \E payload \in SignPayloads, account \in Accounts : sign(TabUrl, payload, account)
  \/ \E id \in Ids, password \in Passwords, savePass \in BOOLEAN, signOk \in BOOLEAN :
       signingApprovePassword(id, password, savePass, signOk)
  \/ \E id \in Ids : signingApproveSignature(id, "0xsignature")
  \/ \E id \in Ids : signingCancel(id)
  \/ \E id \in Ids : signingIsLocked(id)
  \/ \E address \in ForgetAddresses : accountsForget(address)
  \/ Tick

SpecSign == Init /\ [][NextSign]_vars

\* The notification surface: requests of the four kinds arrive and are
\* rejected, cancelled or deleted while the browser creates the windows and
\* the user changes the notification setting.
NextWindows ==
  \/ \E url \in BrokerUrls : authorizeUrl(url)
  \/ \E id \in Ids : authReject(id)
  \/ \E id \in Ids : deleteAuthRequest(id)
  \/ \E def \in MetaDefs : injectMetadata(TabUrl, def)
  \/ \E id \in Ids : metadataReject(id)
  \/ \E payload \in SignPayloads, account \in SignAccounts : sign(TabUrl, payload, account)
  \/ \E id \in Ids : signingCancel(id)
  \/ \E payload \in SignPayloads, did \in Dids : didSign(TabUrl, payload, did)
  \/ \E id \in Ids : didsSignCancel(id)
  \/ \E isWindow \in BOOLEAN : WindowCreated(isWindow)
  \/ \E value \in SignNotifications : setNotification(value)

SpecWindows == Init /\ [][NextWindows]_vars

\* DID management: DIDs are created and deactivated on the chain, one
\* command at a time, and removed from the DID store.
NextDids ==
  \/ \E address \in SignAccounts, password \in Passwords, did \in NewDids :
       didsCreate(address, password, did)
  \/ \E connectOk \in BOOLEAN, signatureValid \in BOOLEAN, submitOk \in BOOLEAN :
       didsCreateConnected(connectOk, signatureValid, submitOk)
  \/ \E e \in DispatchErrors \cup {NoDispatchError} : didsCreateResult(e)
  \/ didsCreateDone
  \/ \E address \in SignAccounts, password \in DidPasswords, did \in Dids,
        didPassword \in DidPasswords :
       didsDeactivate(address, password, did, didPassword)
  \/ \E signatureValid \in BOOLEAN : didsDeactivateLookup(signatureValid)
  \/ \E connectOk \in BOOLEAN, submitOk \in BOOLEAN : didsDeactivateConnected(connectOk, submitOk)
  \/ \E e \in DispatchErrors \cup {NoDispatchError} : didsDeactivateResult(e)
  \/ didsDeactivateDone
  \/ didsList
  \/ \E connectOk \in BOOLEAN, queryOk \in BOOLEAN,
        status \in [didCall.records -> ChainStatuses] :
       didsListDone(connectOk, queryOk, status)
  \/ \E did \in Dids \cup NewDids : didsRemove(did)

SpecDids == Init /\ [][NextDids]_vars

\* ------------------------------------------------------------ properties
\* id has an entry in one of the four pending tables
Pending(id) ==
  \/ HasReq(authRequests, id)
  \/ HasReq(metaRequests, id)
  \/ HasReq(signRequests, id)
  \/ HasReq(didSignRequests, id)

\* the commands that resolve a pending request
ResolutionCmds ==
  {"authorizeApprove", "metadataApprove", "metadataReject", "signingApprovePassword",
   "signingApproveSignature", "signingCancel", "didsSignApprove", "didsSignCancel"}
DidCmds == {"didsSignApprove", "didsSignCancel"}

\* C1: for every request id, the captured resolve and reject continuations
\* are together invoked at most once, whatever the interleaving of approval
\* and cancel commands.
C1_InvokedAtMostOnce == \A id \in Ids : Len(invocations[id]) <= 1

\* C2: an entry leaves its pending table only in a step that invokes exactly
\* one of its continuations, and no continuation is invoked while the entry
\* stays in the table.
C2_RemovedIffInvoked ==
  [][\A id \in Ids :
       /\ (Pending(id) /\ ~Pending(id)') =>
            Len(invocations'[id]) = Len(invocations[id]) + 1
       /\ (invocations'[id] # invocations[id]) => ~Pending(id)']_vars

\* C3: ensureUrlAuthorized succeeds only for an origin whose authorize
\* request the user approved or whose entry was loaded from persisted state.
C3_EnabledOnlyIfApproved ==
  (lastCmd.op = "ensureUrlAuthorized" /\ lastCmd.ok)
    => stripUrl(lastCmd.val) \in approvedOrigins

\* C4 as stated: once a continuation of an id has been invoked, every later
\* resolution command on the id fails with 'Unable to find request' and
\* changes neither the pending tables nor the authorization store.
C4_LaterFailsUnableToFindRequest ==
  [][\A id \in Ids :
       (invocations[id] # <<>> /\ lastCmd'.op \in ResolutionCmds /\ lastCmd'.id = id)
         => /\ ~lastCmd'.ok
            /\ lastCmd'.err = NotFound
            /\ UNCHANGED <<tableVars, storeVars>>]_vars

\* C4 (amended): once a continuation of an id has been invoked, every later
\* resolution command on the id fails with a not-found error ('Unable to
\* find request', for the DID-sign commands 'Unable to find DID signing
\* request') and changes neither the pending tables nor the authorization
\* store.
C4_LaterFailsNotFound ==
  [][\A id \in Ids :
       (invocations[id] # <<>> /\ lastCmd'.op \in ResolutionCmds /\ lastCmd'.id = id)
         => /\ ~lastCmd'.ok
            /\ lastCmd'.err = IF lastCmd'.op \in DidCmds THEN DidNotFoundRequest
                              ELSE NotFound
            /\ UNCHANGED <<tableVars, storeVars>>]_vars

\* a DID-sign command was refused for an id that was resolved before
C4_Witness ==
  /\ lastCmd.op \in DidCmds
  /\ ~lastCmd.ok
  /\ lastCmd.err = DidNotFoundRequest
  /\ lastCmd.id \in Ids
  /\ invocations[lastCmd.id] # <<>>

\* no two pending authorize requests have the same stripped url
OnePendingPerOrigin ==
  \A i, j \in 1..Len(authRequests) :
    authRequests[i].idStr = authRequests[j].idStr => i = j

\* C5: authorizeUrl for an origin that has a pending authorize request fails
\* with the duplicate-request error, enqueues nothing and leaves the pending
\* entry, its continuations and the view as they were; so one request per
\* origin is pending.
C5_DuplicateRefused ==
  [][/\ (/\ lastCmd'.op = "authorizeUrl"
         /\ ValidUrl(lastCmd'.val.url)
         /\ \E i \in 1..Len(authRequests) :
              authRequests[i].idStr = stripUrl(lastCmd'.val.url))
        => /\ ~lastCmd'.ok
           /\ lastCmd'.err = DuplicateRequest
           /\ UNCHANGED <<authRequests, authSubject, invocations, nextId>>
     /\ OnePendingPerOrigin']_vars

\* a second url of the origin of the first of two pending requests was refused
C5_Witness ==
  /\ lastCmd.op = "authorizeUrl"
  /\ lastCmd.err = DuplicateRequest
  /\ Len(authRequests) = 2
  /\ authRequests[1].idStr = stripUrl(lastCmd.val.url)
  /\ authRequests[1].url # lastCmd.val.url
  /\ authSubject = allAuthRequests(authRequests)
  /\ invocations[authRequests[1].id] = <<>>

\* C6: authorizeUrl for an origin that has an authorization entry returns
\* {authorizedAccounts: [], authorizedDids: [], result: false} and leaves the
\* authorize table, the view, the badge, the windows and the store unchanged.
C6_SeenOriginShortCircuits ==
  [][(/\ lastCmd'.op = "authorizeUrl"
      /\ ValidUrl(lastCmd'.val.url)
      /\ Has(authUrls, stripUrl(lastCmd'.val.url)))
       => /\ lastCmd'.ok
          /\ lastCmd'.val = [authorizedAccounts |-> <<>>, authorizedDids |-> <<>>,
                             result |-> FALSE, url |-> lastCmd'.val.url]
          /\ UNCHANGED <<authRequests, authSubject, badge, windowVars, storeVars,
                         invocations, nextId>>]_vars

\* the short circuit was taken while another origin's request was pending
C6_Witness ==
  /\ lastCmd.op = "authorizeUrl"
  /\ lastCmd.ok
  /\ lastCmd.err = ""
  /\ lastCmd.val.result = FALSE
  /\ Has(authUrls, stripUrl(lastCmd.val.url))
  /\ authRequests # <<>>

\* this step enqueues an authorize request for origin
EnqueuedNow(origin) ==
  /\ Len(authRequests') = Len(authRequests) + 1
  /\ authRequests'[Len(authRequests')].idStr = origin

\* C7 as stated: once an authorize request for an origin has been enqueued,
\* no further one is enqueued for it unless authorize.remove ran in between.
C7_AskedOnceUnlessRemoved ==
  [][\A origin \in Origins : origin \in asked => ~EnqueuedNow(origin)]_vars

\* C7 (amended): once an authorize request for an origin has been enqueued,
\* no further one is enqueued for it unless authorize.remove ran for the
\* origin, or the pending request was deleted, in between.
C7_AskedOnceUnlessRemovedOrDeleted ==
  [][\A origin \in Origins : origin \in askedOpen => ~EnqueuedNow(origin)]_vars

\* an origin that was asked and answered asks again and is not enqueued
C7_Witness ==
  /\ lastCmd.op = "authorizeUrl"
  /\ lastCmd.ok
  /\ lastCmd.err = ""
  /\ stripUrl(lastCmd.val.url) \in askedOpen
  /\ lastCmd.val.result = FALSE

\* C8: authorize.approve of a pending id with accounts A and DIDs D stores
\* the entry (A, D, count 0) under the request's stripped url, persists the
\* table, sets and persists the default account list A, removes the pending
\* entry and only then resolves the promise with {A, D, result: true}.
C8_ApproveStoresEntry ==
  [][(lastCmd'.op = "authorizeApprove" /\ lastCmd'.ok) =>
       LET id == lastCmd'.id
           key == stripUrl(GetReq(authRequests, id).url)
           A == lastCmd'.val.authorizedAccounts
           D == lastCmd'.val.authorizedDids
       IN /\ Has(authUrls', key)
          /\ authUrls'[key].authorizedAccounts = A
          /\ authUrls'[key].authorizedDids = D
          /\ authUrls'[key].count = 0
          /\ \A other \in DOMAIN authUrls' \ {key} :
               Has(authUrls, other) /\ authUrls'[other] = authUrls[other]
          /\ StoredAuthUrls(stored') = authUrls'
          /\ defaultAuthAccountSelection' = A
          /\ StoredDefaultAuth(stored') = A
          /\ ~HasReq(authRequests', id)
          /\ invocations'[id] =
               <<Call("resolve",
                      [authorizedAccounts |-> A, authorizedDids |-> D, result |-> TRUE],
                      FALSE, TRUE)>>]_vars

\* a request was approved with two accounts and a DID
C8_Witness ==
  /\ lastCmd.op = "authorizeApprove"
  /\ lastCmd.ok
  /\ lastCmd.val.authorizedAccounts = <<"a1", "a2">>
  /\ lastCmd.val.authorizedDids = <<"d1">>
  /\ Len(invocations[lastCmd.id]) = 1

\* C9: rejecting a pending authorize request writes and persists an entry
\* with empty account and DID lists for its origin before the promise is
\* rejected, so that authorizeUrl for the origin short-circuits from then on;
\* deleting an authorize request writes no entry.
C9_RejectStoresEmptyEntry ==
  [][/\ lastCmd'.op = "authReject" =>
          LET id == lastCmd'.id
              key == stripUrl(GetReq(authRequests, id).url)
          IN /\ Has(authUrls', key)
             /\ authUrls'[key].authorizedAccounts = <<>>
             /\ authUrls'[key].authorizedDids = <<>>
             /\ StoredAuthUrls(stored') = authUrls'
             /\ invocations'[id] = <<Call("reject", "Rejected", FALSE, TRUE)>>
             /\ \A i \in 1..Len(authRequests') : authRequests'[i].idStr # key
     /\ lastCmd'.op = "deleteAuthRequest" => UNCHANGED storeVars]_vars

\* after a rejection, authorizeUrl for the rejected origin was short-circuited
C9_Witness ==
  /\ lastCmd.op = "authorizeUrl"
  /\ lastCmd.ok
  /\ lastCmd.err = ""
  /\ lastCmd.val.result = FALSE
  /\ stripUrl(lastCmd.val.url) \notin approvedOrigins
  /\ \E id \in Ids : /\ invocations[id] # <<>>
                     /\ invocations[id][1].fn = "reject"

\* the approval of this step names a pending sign request whose pair is
\* locked once the unlock cache is refreshed, and gives a password that is
\* neither empty nor the pair's
WrongPasswordApproval ==
  /\ lastCmd'.op = "signingApprovePassword"
  /\ lastCmd'.id \in Ids
  /\ HasReq(signRequests, lastCmd'.id)
  /\ GetReq(signRequests, lastCmd'.id).account \in pairs
  /\ \/ locked[GetReq(signRequests, lastCmd'.id).account]
     \/ cacheExpired(cachedUnlocks, GetReq(signRequests, lastCmd'.id).account, now)
  /\ lastCmd'.val.password = "bad"

ApprovalCmds ==
  {"authorizeApprove", "metadataApprove", "signingApprovePassword",
   "didsSignApproveResume"}

\* the approval of this step named an id that was pending in the command's
\* table and ended in an error: it threw, or it returned false
FailedApproval ==
  /\ lastCmd'.op \in ApprovalCmds
  /\ lastCmd'.id \in Ids
  /\ \/ lastCmd'.op = "authorizeApprove" /\ HasReq(authRequests, lastCmd'.id)
     \/ lastCmd'.op = "metadataApprove" /\ HasReq(metaRequests, lastCmd'.id)
     \/ lastCmd'.op = "signingApprovePassword" /\ HasReq(signRequests, lastCmd'.id)
     \/ lastCmd'.op = "didsSignApproveResume" /\ HasReq(didSignRequests, lastCmd'.id)
  /\ \/ ~lastCmd'.ok
     \/ lastCmd'.err = "returned false"

\* C11: whenever an approval command on a pending id ends in an error, the
\* pending entry has left its table when the command completes and the
\* error was delivered by a call of the request's reject continuation.
C11_FailedApprovalRejects ==
  [][FailedApproval =>
       /\ ~HasReq(authRequests', lastCmd'.id)
       /\ ~HasReq(metaRequests', lastCmd'.id)
       /\ ~HasReq(signRequests', lastCmd'.id)
       /\ ~HasReq(didSignRequests', lastCmd'.id)
       /\ Len(invocations'[lastCmd'.id]) = Len(invocations[lastCmd'.id]) + 1
       /\ invocations'[lastCmd'.id][Len(invocations'[lastCmd'.id])].fn = "reject"]_vars

\* the ids of a view or of a pending table, in its order
IdsOf(list) == [i \in 1..Len(list) |-> list[i].id]

\* getId numbers the requests in their order of arrival, so a list of ids
\* is in arrival order when it is increasing
InArrivalOrder(ids) == \A i, j \in 1..Len(ids) : i < j => ids[i] < ids[j]

\* the view lists exactly the requests of the table, oldest first, and none
\* of them has had a continuation invoked
ViewOfUnresolved(view, reqs) ==
  /\ IdsOf(view) = IdsOf(reqs)
  /\ InArrivalOrder(IdsOf(view))
  /\ \A i \in 1..Len(view) : invocations[view[i].id] = <<>>

\* C12: for every kind, the ids of the kind's observable view are the
\* not-yet-resolved ids of that kind in their order of arrival.
C12_ViewInArrivalOrder ==
  /\ ViewOfUnresolved(authSubject, authRequests)
  /\ ViewOfUnresolved(metaSubject, metaRequests)
  /\ ViewOfUnresolved(signSubject, signRequests)
  /\ ViewOfUnresolved(didSignSubject, didSignRequests)

\* the older of two sign requests was cancelled and the view shows the other
C12_Witness ==
  /\ lastCmd.op = "signingCancel"
  /\ lastCmd.ok
  /\ lastCmd.id = 1
  /\ IdsOf(signSubject) = <<2>>

\* list with every occurrence of address taken out and the rest in place
Without(list, address) == SelectSeq(list, LAMBDA x : x # address)

\* C13: accounts.forget(address) removes address from the account list of
\* every entry and from the default selection, leaves the DID lists, the
\* other addresses and the other fields as they were, persists both values,
\* and a second call right after the first changes neither the table nor
\* the default list.
C13_ForgetRemovesEverywhere ==
  [][lastCmd'.op = "accountsForget" =>
       /\ lastCmd'.ok
       /\ DOMAIN authUrls' = DOMAIN authUrls
       /\ \A o \in DOMAIN authUrls :
            authUrls'[o] =
              [authUrls[o] EXCEPT
                 !.authorizedAccounts = Without(authUrls[o].authorizedAccounts, lastCmd'.val)]
       /\ defaultAuthAccountSelection' = Without(defaultAuthAccountSelection, lastCmd'.val)
       /\ StoredAuthUrls(stored') = authUrls'
       /\ StoredDefaultAuth(stored') = defaultAuthAccountSelection'
       /\ (lastCmd.op = "accountsForget" /\ lastCmd.val = lastCmd'.val) =>
            UNCHANGED <<authUrls, defaultAuthAccountSelection, stored>>]_vars

\* the address was forgotten where it was authorized next to another
\* address and a DID, and those two stay
C13_Witness ==
  /\ lastCmd.op = "accountsForget"
  /\ lastCmd.val = "a1"
  /\ \E o \in DOMAIN authUrls :
       /\ authUrls[o].authorizedAccounts = <<"a2">>
       /\ authUrls[o].authorizedDids = <<"d1">>
  /\ StoredAuthUrls(stored) = authUrls
  /\ defaultAuthAccountSelection = <<"a2">>

\* C14: for an origin with an entry, authorize.update(origin, accounts,
\* dids) writes accounts and dids into that origin's entry, keeps the
\* previous DID list when dids is omitted and leaves every other origin's
\* entry unchanged; an authorize.list right after it returns the table with
\* that entry.
C14_UpdateThenList ==
  [][/\ (lastCmd'.op = "authorizeUpdate" /\ Has(authUrls, lastCmd'.val.url)) =>
          /\ lastCmd'.ok
          /\ DOMAIN authUrls' = DOMAIN authUrls
          /\ \A o \in DOMAIN authUrls \ {lastCmd'.val.url} : authUrls'[o] = authUrls[o]
          /\ authUrls'[lastCmd'.val.url].authorizedAccounts = lastCmd'.val.authorizedAccounts
          /\ authUrls'[lastCmd'.val.url].authorizedDids =
               IF lastCmd'.val.authorizedDids = UndefinedList
                 THEN authUrls[lastCmd'.val.url].authorizedDids
                 ELSE lastCmd'.val.authorizedDids
     /\ (lastCmd.op = "authorizeUpdate" /\ lastCmd.ok /\ lastCmd'.op = "getAuthList") =>
          /\ Has(lastCmd'.val.list, lastCmd.val.url)
          /\ lastCmd'.val.list = authUrls
          /\ lastCmd'.val.list[lastCmd.val.url].authorizedAccounts =
               lastCmd.val.authorizedAccounts
          /\ lastCmd.val.authorizedDids # UndefinedList =>
               lastCmd'.val.list[lastCmd.val.url].authorizedDids =
                 lastCmd.val.authorizedDids]_vars

\* the list was asked right after an update of b.org, whose entry has the
\* written accounts and DIDs while a.com's entry has others
C14_Witness ==
  /\ lastCmd.op = "getAuthList"
  /\ lastCmd.val.updated = "b.org"
  /\ lastCmd.val.list["b.org"].authorizedAccounts = <<"a1">>
  /\ lastCmd.val.list["b.org"].authorizedDids = <<"d1">>
  /\ Has(lastCmd.val.list, "a.com")
  /\ lastCmd.val.list["a.com"].authorizedAccounts = <<"a1", "a2">>

\* C15: authorize.remove(origin) fails with the not-known error and leaves
\* the table in memory and in storage unchanged when the origin has no
\* entry; otherwise it deletes exactly that origin's entry, persists the
\* table and returns it, and an authorizeUrl for that origin right after it
\* enqueues a new pending request.
C15_RemoveDeletesOneEntry ==
  [][/\ (lastCmd'.op = "removeAuthorization" /\ ~Has(authUrls, lastCmd'.val.url)) =>
          /\ ~lastCmd'.ok
          /\ lastCmd'.err = "is not known"
          /\ UNCHANGED <<authUrls, stored>>
     /\ (lastCmd'.op = "removeAuthorization" /\ Has(authUrls, lastCmd'.val.url)) =>
          /\ lastCmd'.ok
          /\ DOMAIN authUrls' = DOMAIN authUrls \ {lastCmd'.val.url}
          /\ \A o \in DOMAIN authUrls' : authUrls'[o] = authUrls[o]
          /\ StoredAuthUrls(stored') = authUrls'
          /\ lastCmd'.val.list = authUrls'
     /\ ( /\ lastCmd.op = "removeAuthorization"
          /\ lastCmd.ok
          /\ lastCmd'.op = "authorizeUrl"
          /\ ValidUrl(lastCmd'.val.url)
          /\ stripUrl(lastCmd'.val.url) = lastCmd.val.url ) =>
          /\ lastCmd'.err = "enqueued"
          /\ Len(authRequests') = Len(authRequests) + 1
          /\ HasReq(authRequests', lastCmd'.id)
          /\ GetReq(authRequests', lastCmd'.id).idStr = lastCmd.val.url]_vars

\* the first request ever enqueued is for b.org while the stored default
\* selection is still the one that was loaded together with b.org's entry:
\* that entry was removed before the request arrived
C15_Witness ==
  /\ lastCmd.op = "authorizeUrl"
  /\ lastCmd.err = "enqueued"
  /\ lastCmd.id = 1
  /\ stripUrl(lastCmd.val.url) = "b.org"
  /\ StoredDefaultAuth(stored) = <<"a1">>
  /\ ~Has(StoredAuthUrls(stored), "b.org")
  /\ ~Has(authUrls, "b.org")

\* the url's scheme is none of the four the wallet accepts
BadScheme(url) == url = <<>> \/ url[1] \notin {"http:", "https:", "ipfs:", "ipns:"}

\* C16: authorizeUrl and ensureUrlAuthorized called with a url whose scheme
\* is not http, https, ipfs or ipns fail with the invalid-url error and
\* change no state: no pending entry, no view emitted, no window opened,
\* the authorization store untouched.
C16_BadSchemeRefused ==
  [][( \/ lastCmd'.op = "authorizeUrl" /\ BadScheme(lastCmd'.val.url)
       \/ lastCmd'.op = "ensureUrlAuthorized" /\ BadScheme(lastCmd'.val) ) =>
       /\ ~lastCmd'.ok
       /\ lastCmd'.err = "Invalid url"
       /\ UNCHANGED <<storeVars, tableVars, subjectVars, badge, windowVars, nextId,
                      invocations>>]_vars

\* an ftp url was refused while another origin's request was pending
C16_Witness ==
  /\ lastCmd.op = "authorizeUrl"
  /\ ~lastCmd.ok
  /\ lastCmd.err = "Invalid url"
  /\ lastCmd.val.url = UrlBad
  /\ Len(authRequests) = 1
  /\ authSubject = allAuthRequests(authRequests)

\* number of pending requests of the four kinds together
TotalPending ==
  Len(authRequests) + Len(metaRequests) + Len(signRequests) + Len(didSignRequests)

\* C17: opening the notification surface is idempotent: whatever requests
\* were enqueued, at most one notification window has been created and is
\* tracked by the state.
C17_AtMostOneWindow ==
  /\ Cardinality(openWins) <= 1
  /\ Len(windows) <= 1

\* C18: once nothing is pending and every window creation has called back,
\* no notification window is open, also when a creation callback fired
\* after the resolution that emptied the tables; and a step closes a window
\* only if it leaves nothing pending.
C18_ClosedWhenNonePending ==
  /\ []((TotalPending = 0 /\ creating = 0) => openWins = {})
  /\ [][~(openWins \subseteq openWins') =>
          Len(authRequests') + Len(metaRequests') + Len(signRequests')
            + Len(didSignRequests') = 0]_vars

\* C19: the badge text is 'Auth' if an authorize request is pending, else
\* 'Meta' if a metadata request is pending, else the decimal sum of the
\* pending sign and DID-sign requests if it is not zero, else empty.
C19_BadgeShowsPending ==
  badge = IF Len(authRequests) > 0 THEN "Auth"
          ELSE IF Len(metaRequests) > 0 THEN "Meta"
          ELSE IF Len(signRequests) + Len(didSignRequests) > 0
            THEN ToString(Len(signRequests) + Len(didSignRequests))
          ELSE ""

\* an authorize request was resolved or deleted while a metadata request
\* is pending, and the badge fell back to 'Meta'
C19_Witness ==
  /\ lastCmd.op \in {"authorizeApprove", "authReject", "deleteAuthRequest"}
  /\ lastCmd.ok
  /\ Len(authRequests) = 0
  /\ Len(metaRequests) = 1
  /\ badge = "Meta"

\* C20: when the submission of dids.create reports a dispatch or module
\* error, the callback records the decoded error and the signing account is
\* locked; the command then completes by rejecting with that error, with
\* the account locked and no record of the DID in the DID store.
C20_DispatchErrorRejects ==
  [][/\ (lastCmd'.op = "didsCreateResult" /\ lastCmd'.val # NoDispatchError) =>
          /\ didCall'.failed
          /\ didCall'.error =
               IF lastCmd'.val.isModule
                 THEN IF lastCmd'.val.section = "did"
                        THEN "did.DidAlreadyExists" ELSE lastCmd'.val.name
                 ELSE lastCmd'.val.text
          /\ didCall'.error # ""
          /\ locked'[didCall.account]
          /\ UNCHANGED didsStore
     /\ ( /\ didCall.pc = "disconnecting"
          /\ didCall.error \in {"did.DidAlreadyExists", "Unknown", "BadOrigin"}
          /\ didCall'.pc = "idle" ) =>
          /\ lastCmd'.op = "didsCreate"
          /\ ~lastCmd'.ok
          /\ lastCmd'.err = didCall.error
          /\ locked'[didCall.account]
          /\ didCall.did \notin didsStore']_vars

\* a dids.create whose submission reported the module error has completed
C20_Witness ==
  /\ lastCmd.op = "didsCreate"
  /\ ~lastCmd.ok
  /\ lastCmd.err = "did.DidAlreadyExists"
  /\ didCall = IdleCall
  /\ locked[lastCmd.val.account]
  /\ lastCmd.val.did \notin didsStore

\* C21: whenever a dids.create or dids.deactivate command completes, with
\* whatever outcome, a signing account that the command unlocked is locked.
C21_UnlockedAccountRelocked ==
  [][(didCall.pc # "idle" /\ didCall'.pc = "idle" /\ didCall.unlocked) =>
       locked'[didCall.account]]_vars

\* C22: dids.list reads every record of the DID store and returns one
\* record for each of them without failing; when connecting to or querying
\* the chain failed, no returned record has a deactivated field.
C22_ListReturnsLocalRecords ==
  [][/\ (didCall.pc = "idle" /\ didCall'.pc = "listing") =>
          didCall'.records = didsStore
     /\ (didCall.pc = "listing" /\ didCall'.pc = "idle") =>
          /\ lastCmd'.op = "didsList"
          /\ lastCmd'.ok
          /\ {r.did : r \in lastCmd'.val.records} = didCall.records
          /\ Cardinality(lastCmd'.val.records) = Cardinality(didCall.records)
          /\ lastCmd'.val.chain = "failed" =>
               \A r \in lastCmd'.val.records : r.deactivated = "absent"]_vars

\* two DIDs are stored and the list was returned after the chain failed
C22_Witness ==
  /\ lastCmd.op = "didsList"
  /\ lastCmd.ok
  /\ lastCmd.err = ""
  /\ lastCmd.val.chain = "failed"
  /\ Cardinality(didsStore) = 2
  /\ {r.did : r \in lastCmd.val.records} = didsStore

\* the entries of a pending table other than the one of id, in their order
OthersThan(reqs, id) == SelectSeq(reqs, LAMBDA r : r.id # id)

\* C23: signing.cancel and dids.sign.cancel on a pending id call the
\* request's reject continuation once with 'Cancelled', remove exactly that
\* entry from its table, produce no signature, and leave the unlock cache,
\* the lock state and the key pairs as they were.
C23_CancelRejectsAndKeepsKeyring ==
  [][/\ (lastCmd'.op = "signingCancel" /\ HasReq(signRequests, lastCmd'.id)) =>
          /\ lastCmd'.ok
          /\ signRequests' = OthersThan(signRequests, lastCmd'.id)
          /\ Len(signRequests') = Len(signRequests) - 1
          /\ UNCHANGED <<authRequests, metaRequests, didSignRequests>>
          /\ Len(invocations'[lastCmd'.id]) = Len(invocations[lastCmd'.id]) + 1
          /\ invocations'[lastCmd'.id][Len(invocations'[lastCmd'.id])].fn = "reject"
          /\ invocations'[lastCmd'.id][Len(invocations'[lastCmd'.id])].val = "Cancelled"
          /\ UNCHANGED <<signatures, locked, cachedUnlocks, pairs>>
     /\ (lastCmd'.op = "didsSignCancel" /\ HasReq(didSignRequests, lastCmd'.id)) =>
          /\ lastCmd'.ok
          /\ didSignRequests' = OthersThan(didSignRequests, lastCmd'.id)
          /\ Len(didSignRequests') = Len(didSignRequests) - 1
          /\ UNCHANGED <<authRequests, metaRequests, signRequests>>
          /\ Len(invocations'[lastCmd'.id]) = Len(invocations[lastCmd'.id]) + 1
          /\ invocations'[lastCmd'.id][Len(invocations'[lastCmd'.id])].fn = "reject"
          /\ invocations'[lastCmd'.id][Len(invocations'[lastCmd'.id])].val = "Cancelled"
          /\ UNCHANGED <<signatures, locked, cachedUnlocks, pairs>>]_vars

\* a sign request was cancelled while a DID-sign request stays pending
C23_Witness ==
  /\ lastCmd.op = "signingCancel"
  /\ lastCmd.ok
  /\ invocations[lastCmd.id] # <<>>
  /\ invocations[lastCmd.id][1].fn = "reject"
  /\ invocations[lastCmd.id][1].val = "Cancelled"
  /\ signRequests = <<>>
  /\ Len(didSignRequests) = 1
  /\ signatures = {}

\* C24: metadata.approve on a pending id sets the request's definition in
\* the metadata store and in the registry, and the request's resolve is
\* called with true once both hold it; metadata.reject calls the request's
\* reject and leaves the store and the registry unchanged; both remove the
\* pending entry.
C24_MetadataApproveSaves ==
  [][/\ (lastCmd'.op = "metadataApprove" /\ HasReq(metaRequests, lastCmd'.id)) =>
          /\ lastCmd'.ok
          /\ Has(metaStore', GetReq(metaRequests, lastCmd'.id).request.genesisHash)
          /\ metaStore'[GetReq(metaRequests, lastCmd'.id).request.genesisHash] =
               GetReq(metaRequests, lastCmd'.id).request
          /\ Has(registry', GetReq(metaRequests, lastCmd'.id).request.genesisHash)
          /\ registry'[GetReq(metaRequests, lastCmd'.id).request.genesisHash] =
               GetReq(metaRequests, lastCmd'.id).request
          /\ Len(invocations'[lastCmd'.id]) = Len(invocations[lastCmd'.id]) + 1
          /\ invocations'[lastCmd'.id][Len(invocations'[lastCmd'.id])].fn = "resolve"
          /\ invocations'[lastCmd'.id][Len(invocations'[lastCmd'.id])].val = TRUE
          /\ invocations'[lastCmd'.id][Len(invocations'[lastCmd'.id])].persistedAtCall
          /\ ~HasReq(metaRequests', lastCmd'.id)
     /\ (lastCmd'.op = "metadataReject" /\ HasReq(metaRequests, lastCmd'.id)) =>
          /\ lastCmd'.ok
          /\ Len(invocations'[lastCmd'.id]) = Len(invocations[lastCmd'.id]) + 1
          /\ invocations'[lastCmd'.id][Len(invocations'[lastCmd'.id])].fn = "reject"
          /\ UNCHANGED <<metaStore, registry>>
          /\ ~HasReq(metaRequests', lastCmd'.id)]_vars

\* a metadata request was approved: its definition is in the store and in
\* the registry and its promise was resolved
C24_Witness ==
  /\ lastCmd.op = "metadataApprove"
  /\ lastCmd.ok
  /\ Has(metaStore, "g1")
  /\ Has(registry, "g1")
  /\ invocations[lastCmd.id] # <<>>
  /\ invocations[lastCmd.id][1].fn = "resolve"
  /\ ~HasReq(metaRequests, lastCmd.id)

\* ------------------------------------------------------------ startup metadata pass
\* knownGenesis: network name -> its genesis hashes, the newest first
knownGenesis == [kusama |-> <<"k0", "k1", "k2">>, polkadot |-> <<"p0">>]

\* what the metadata store may hold when the extension starts: definitions
\* saved under their genesis hash, of a known network or of none
StoredHashes == {"k0", "k1", "k2", "u1"}
StoredMetadata ==
  {[h \in S |-> [genesisHash |-> h, specVersion |-> 1]] : S \in SUBSET StoredHashes}

\* the orders in which Object.entries(map) may list the keys
Orders(keys) == {o \in [1..Cardinality(keys) -> keys] : Range(o) = keys}

\* hashes.indexOf(hash)
indexOf(hashes, hash) ==
  CHOOSE i \in 1..Len(hashes) :
    hashes[i] = hash /\ \A j \in 1..(i - 1) : hashes[j] # hash

\* the forEach of extractMetadata over the entries in their order: defs
\* takes an entry of a known network when the network has none yet or a
\* higher index, the entry it replaces going to removals; an entry of no
\* known network is taken under its own key
RECURSIVE extractEntries(_, _, _, _)
extractEntries(map, order, defs, removals) ==
  IF order = <<>>
    THEN [defs |-> defs, removals |-> removals]
    ELSE LET key == Head(order)
             def == map[key]
             known == {name \in DOMAIN knownGenesis :
                         def.genesisHash \in Range(knownGenesis[name])}
         IN IF known # {}
              THEN LET name == CHOOSE n \in known : TRUE
                       index == indexOf(knownGenesis[name], def.genesisHash)
                   IN IF ~Has(defs, name) \/ defs[name].index > index
                        THEN extractEntries(map, Tail(order),
                               Put(defs, name, [def |-> def, index |-> index, key |-> key]),
                               IF Has(defs, name)
                                 THEN Append(removals, defs[name].key)
                                 ELSE removals)
                        ELSE extractEntries(map, Tail(order), defs, removals)
              ELSE extractEntries(map, Tail(order),
                     Put(defs, key, [def |-> def, index |-> 0, key |-> key]), removals)

\* extractMetadata, the callback of store.allMap at construction: the
\* removals are removed from the store and every def is given to addMetadata
extractMetadata(order) ==
  /\ ~metaLoaded
  /\ order \in Orders(DOMAIN metaStore)
  /\ LET pass == extractEntries(metaStore, order, EmptyTable, <<>>)
         added == {pass.defs[n].def : n \in DOMAIN pass.defs}
     IN /\ metaStore' = [k \in (DOMAIN metaStore) \ Range(pass.removals) |-> metaStore[k]]
        /\ registry' = [h \in (DOMAIN registry) \cup {d.genesisHash : d \in added} |->
                          IF \E d \in added : d.genesisHash = h
                            THEN CHOOSE d \in added : d.genesisHash = h
                            ELSE registry[h]]
  /\ metaLoaded' = TRUE
  /\ lastCmd' = Cmd("extractMetadata", 0, TRUE, "", order)
  /\ UNCHANGED <<storeVars, tableVars, subjectVars, badge, windowVars, nextId,
                 invocations, keyringVars, now, didsStore, didApprovals, didCall,
                 signatures, historyVars, startupLoad, connectedTabsUrl>>

\* an installation that has metadata stored from earlier runs
InitMeta ==
  \E meta \in StoredMetadata, storage \in InitialStorage : InitState(meta, storage, NoLoad)

\* The metadata store: the startup pass runs once, and metadata requests
\* arrive and are approved or rejected.
NextMeta ==
  \/ \E order \in Orders(DOMAIN metaStore) : extractMetadata(order)
  \/ \E def \in MetaDefs : injectMetadata(TabUrl, def)
  \/ \E id \in Ids : metadataApprove(id)
  \/ \E id \in Ids : metadataReject(id)

SpecMeta == InitMeta /\ [][NextMeta]_vars

\* hash h is listed no later than hash g in the network's genesis hashes
NoLater(name, h, g) ==
  \E i, j \in 1..Len(knownGenesis[name]) :
    i <= j /\ knownGenesis[name][i] = h /\ knownGenesis[name][j] = g

\* C25: after the startup pass, of every known network with entries in the
\* store only the entry with the lowest index is left, whatever the order
\* in which the store listed its entries, and the entries of unknown
\* networks are all kept
C25_OnlyLowestIndexKept ==
  [][(~metaLoaded /\ metaLoaded') =>
       /\ \A name \in DOMAIN knownGenesis :
            LET family == Range(knownGenesis[name]) \cap DOMAIN metaStore
            IN family # {} =>
                 \E h \in family :
                   /\ \A g \in family : NoLater(name, h, g)
                   /\ (DOMAIN metaStore') \cap Range(knownGenesis[name]) = {h}
       /\ \A h \in DOMAIN metaStore :
            (\A name \in DOMAIN knownGenesis : h \notin Range(knownGenesis[name])) =>
              Has(metaStore', h) /\ metaStore'[h] = metaStore[h]]_vars

\* C26: in every state, no two pending authorize requests have the same
\* normalized origin
C26_DistinctPendingOrigins ==
  \A i, j \in 1..Len(authRequests) :
    i # j => stripUrl(authRequests[i].url) # stripUrl(authRequests[j].url)

\* two requests of different origins are pending, the second just enqueued
C26_Witness ==
  /\ lastCmd.op = "authorizeUrl"
  /\ lastCmd.err = "enqueued"
  /\ Len(authRequests) = 2
  /\ authRequests[2].id = lastCmd.id
  /\ stripUrl(authRequests[1].url) # stripUrl(authRequests[2].url)

\* the two values held in storage, read back as the constructor reads them
PersistedEqualsMemory ==
  /\ (IF Has(stored, AUTH_URLS_KEY) THEN Parse(stored[AUTH_URLS_KEY]) ELSE EmptyTable)
       = authUrls
  /\ (IF Has(stored, DEFAULT_AUTH_ACCOUNTS) THEN Parse(stored[DEFAULT_AUTH_ACCOUNTS])
                                            ELSE <<>>)
       = defaultAuthAccountSelection

\* the origins whose authorized accounts include the address
OriginsWith(urls, address) ==
  {o \in DOMAIN urls : address \in Range(urls[o].authorizedAccounts)}

ResolvingCmds ==
  {"authorizeApprove", "authReject", "metadataApprove", "metadataReject",
   "signingApprovePassword", "signingApproveSignature", "signingCancel",
   "didsSignApprove", "didsSignApproveResume", "didsSignCancel"}

\* the entries of a table or of a view other than the one of id, in order
OthersOf(entries, id) == SelectSeq(entries, LAMBDA r : r.id # id)

ProjectionOf(view, table) ==
  /\ Len(view) = Len(table)
  /\ \A i \in 1..Len(table) :
       /\ view[i].id = table[i].id
       /\ view[i].request = table[i].request
       /\ view[i].url = table[i].url

\* C29: in every state, so after every enqueue, resolution and deletion, the
\* value last emitted on the subject of each kind is the projection
\* (id, payload, url) of that kind's pending table
C29_SubjectsShowTables ==
  /\ ProjectionOf(authSubject, authRequests)
  /\ ProjectionOf(metaSubject, metaRequests)
  /\ ProjectionOf(signSubject, signRequests)
  /\ ProjectionOf(didSignSubject, didSignRequests)

\* a pending authorize request was deleted while a sign request is pending
C29_Witness ==
  /\ lastCmd.op = "deleteAuthRequest"
  /\ lastCmd.val.origin # Undefined
  /\ authRequests = <<>>
  /\ authSubject = <<>>
  /\ Len(signRequests) = 1
  /\ Len(signSubject) = 1

\* this step is signing.approve.password on a pending request of an account
\* the keyring has a pair for
ApprovalOf(a) ==
  /\ lastCmd'.op = "signingApprovePassword"
  /\ HasReq(signRequests, lastCmd'.id)
  /\ GetReq(signRequests, lastCmd'.id).account = a
  /\ a \in pairs

\* this step is signing.isLocked on a pending request of such an account
IsLockedOf(a) ==
  /\ lastCmd'.op = "signingIsLocked"
  /\ HasReq(signRequests, lastCmd'.id)
  /\ GetReq(signRequests, lastCmd'.id).request.address = a
  /\ a \in pairs

C31_RecordOnlyAfterInclusion ==
  [][/\ (didsStore' \ didsStore) # {} =>
          /\ didCall.pc = "disconnecting"
          /\ ~didCall.failed
          /\ didsStore' \ didsStore = {didCall.did}
          /\ lastCmd' = Cmd("didsCreate", 0, TRUE, "",
                            [account |-> didCall.account, did |-> didCall.did])
     /\ (didCall'.pc = "disconnecting" /\ didCall.pc # "disconnecting"
           /\ ~didCall'.failed) =>
          /\ didCall.pc = "submitted"
          /\ lastCmd' = Cmd("didsCreateResult", 0, TRUE, "", NoDispatchError)
     /\ (lastCmd'.op = "didsCreate" /\ ~lastCmd'.ok) =>
          /\ didsStore' = didsStore
          /\ lastCmd'.val.did \notin didsStore']_vars

\* a creation has ended with its record in the DID store
C31_Witness ==
  /\ lastCmd.op = "didsCreate"
  /\ lastCmd.ok
  /\ lastCmd.err = ""
  /\ lastCmd.val.did \in didsStore
  /\ didCall = IdleCall
  /\ locked[lastCmd.val.account]

\* the errors of dids.deactivate that come from the DID itself
DidErrors ==
  {"DID not found", "Wrong DID password",
   "Invalid DID deactivation signature generated locally"}

\* C32: dids.deactivate looks the DID up, checks its password and verifies
\* the deactivation signature before it unlocks the signing account and
\* before it connects to the chain: an unknown DID or a wrong DID password
\* ends the command, whatever the account and its password are, with no
\* account unlocked, no connection made and nothing stored changed
C32_DidCheckedFirst ==
  [][/\ (didCall.pc = "deactivateLookup" /\ didCall'.pc # "deactivateLookup") =>
          /\ didCall.did \notin didsStore =>
               lastCmd' = Cmd("didsDeactivate", 0, FALSE, "DID not found",
                              [account |-> didCall.account, did |-> didCall.did])
          /\ (didCall.did \in didsStore /\ didCall.didPassword # GoodPassword) =>
               lastCmd' = Cmd("didsDeactivate", 0, FALSE, "Wrong DID password",
                              [account |-> didCall.account, did |-> didCall.did])
     /\ (lastCmd'.op = "didsDeactivate" /\ lastCmd'.err \in DidErrors) =>
          /\ didCall.pc = "deactivateLookup"
          /\ didCall' = IdleCall
          /\ UNCHANGED <<locked, cachedUnlocks, pairs, didsStore, storeVars, metaVars>>
     /\ (didCall.pc # "deactivateConnecting" /\ didCall'.pc = "deactivateConnecting") =>
          /\ didCall.pc = "deactivateLookup"
          /\ didCall.did \in didsStore
          /\ didCall.didPassword = GoodPassword]_vars

\* a deactivation given the account's password and a wrong DID password
\* has ended with the account still locked
C32_Witness ==
  /\ lastCmd.op = "didsDeactivate"
  /\ lastCmd.err = "Wrong DID password"
  /\ lastCmd.val.did \in didsStore
  /\ lastCmd.val.account \in pairs
  /\ locked[lastCmd.val.account]
  /\ didCall = IdleCall

\* the dids.sign.approve command that this step resumes
ResumedApproval == CHOOSE a \in didApprovals : a \notin didApprovals'

\* C33: dids.sign.approve looks the DID up in the DID store before it
\* decodes the password or signs: when the store has no record of the DID
\* the command fails with the DID-not-found error, nothing is signed and no
\* continuation is invoked
C33_LookupBeforeSigning ==
  [][(lastCmd'.op = "didsSignApproveResume" /\ didApprovals' # didApprovals) =>
       /\ ResumedApproval.id = lastCmd'.id
       /\ ResumedApproval.did \notin didsStore =>
            /\ ~lastCmd'.ok
            /\ lastCmd'.err = "DID not found"
            /\ UNCHANGED <<signatures, invocations, didSignRequests, didSignSubject>>
       /\ lastCmd'.err # "DID not found" => ResumedApproval.did \in didsStore]_vars

\* the DID of a pending request was removed from the store between the
\* approval and the callback of the lookup, and the approval failed
C33_Witness ==
  /\ lastCmd.op = "didsSignApproveResume"
  /\ lastCmd.err = "DID not found"
  /\ HasReq(didSignRequests, lastCmd.id)
  /\ GetReq(didSignRequests, lastCmd.id).did \notin didsStore
  /\ invocations[lastCmd.id] = <<>>
  /\ signatures = {}

\* the resolutions of the other kinds of request, and the deletion of an
\* authorize request
OtherResolutions ==
  {"metadataApprove", "metadataReject", "signingApprovePassword",
   "signingApproveSignature", "signingCancel", "didsSignApprove",
   "didsSignApproveResume", "didsSignCancel", "deleteAuthRequest"}

\* C34: completing an authorize request replaces the default list of
\* authorized accounts by the list of the request: the approved accounts on
\* approval, the empty list on rejection, whatever the list was before; the
\* resolutions of sign, DID-sign and metadata requests and the deletion of
\* an authorize request leave it as it is
C34_CompletionReplacesDefault ==
  [][/\ (lastCmd'.op = "authorizeApprove" /\ lastCmd'.ok) =>
          defaultAuthAccountSelection' = lastCmd'.val.authorizedAccounts
     /\ lastCmd'.op = "authReject" => defaultAuthAccountSelection' = <<>>
     /\ lastCmd'.op \in OtherResolutions =>
          defaultAuthAccountSelection' = defaultAuthAccountSelection]_vars

\* a rejection has emptied the default list that was loaded at startup
C34_Witness ==
  /\ lastCmd.op = "authReject"
  /\ Has(authUrls, "b.org")
  /\ Has(authUrls, lastCmd.val.origin)
  /\ defaultAuthAccountSelection = <<>>

\* C35: authorize.update naming an origin that has no entry fails and
\* changes nothing, and no command but the approval or the rejection of a
\* pending authorize request, for the origin of that request, adds an entry
\* to the authorization table
C35_UpdateCreatesNoEntry ==
  [][/\ (lastCmd'.op = "authorizeUpdate" /\ ~Has(authUrls, lastCmd'.val.url)) =>
          /\ ~lastCmd'.ok
          /\ UNCHANGED <<authUrls, stored>>
     /\ \A origin \in (DOMAIN authUrls') \ (DOMAIN authUrls) :
          /\ lastCmd'.op \in {"authorizeApprove", "authReject"}
          /\ HasReq(authRequests, lastCmd'.id)
          /\ stripUrl(GetReq(authRequests, lastCmd'.id).url) = origin]_vars

\* an update for an origin whose only trace is a pending request has failed
C35_Witness ==
  /\ lastCmd.op = "authorizeUpdate"
  /\ ~lastCmd.ok
  /\ ~Has(authUrls, lastCmd.val.url)
  /\ \E i \in 1..Len(authRequests) : stripUrl(authRequests[i].url) = lastCmd.val.url

\* ------------------------------------------------------------ startup without localStorage
\* Object.assign(target, source)
ObjectAssign(target, source) ==
  [k \in (DOMAIN target) \cup (DOMAIN source) |->
     IF k \in DOMAIN source THEN source[k] ELSE target[k]]

\* the callback of the chrome.storage.local.get the constructor issues when
\* there is no localStorage: each value that is a string goes to
\* workerStorageFallback, the authorizations are assigned over #authUrls and
\* the default list replaces defaultAuthAccountSelection
startupLoaded ==
  LET items == startupLoad.items
      stored1 == IF Has(items, AUTH_URLS_KEY)
                   THEN Put(stored, AUTH_URLS_KEY, items[AUTH_URLS_KEY])
                   ELSE stored
  IN
  /\ startupLoad.pending
  /\ startupLoad' = [startupLoad EXCEPT !.pending = FALSE]
  /\ authUrls' = IF Has(items, AUTH_URLS_KEY)
                   THEN ObjectAssign(authUrls, Parse(items[AUTH_URLS_KEY]))
                   ELSE authUrls
  /\ defaultAuthAccountSelection' =
       IF Has(items, DEFAULT_AUTH_ACCOUNTS)
         THEN Parse(items[DEFAULT_AUTH_ACCOUNTS])
         ELSE defaultAuthAccountSelection
  /\ stored' = IF Has(items, DEFAULT_AUTH_ACCOUNTS)
                 THEN Put(stored1, DEFAULT_AUTH_ACCOUNTS, items[DEFAULT_AUTH_ACCOUNTS])
                 ELSE stored1
  /\ approvedOrigins' = approvedOrigins \cup DOMAIN authUrls'
  /\ lastCmd' = Cmd("startupLoaded", 0, TRUE, "", <<>>)
  /\ UNCHANGED <<tableVars, subjectVars, badge, windowVars, nextId, invocations,
                 keyringVars, now, didsStore, didApprovals, didCall, metaStore,
                 registry, metaLoaded, connectedTabsUrl, signatures, asked, askedOpen>>

\* construction in a service worker: workerStorageFallback is empty and
\* the values an earlier run persisted are asked of chrome.storage.local
InitWorker ==
  \E items \in InitialStorage :
    InitState(EmptyTable, EmptyTable, [pending |-> TRUE, items |-> items])

\* The authorization store in a service worker: the commands that write the
\* table or the default list, and the callback of the startup load.
NextWorker ==
  \/ \E url \in Urls : authorizeUrl(url)
  \/ \E id \in Ids, accounts \in AccountLists, dids \in DidLists :
       authorizeApprove(id, accounts, dids)
  \/ \E id \in Ids : authReject(id)
  \/ \E origin \in Origins : removeAuthorization(origin)
  \/ \E origin \in Origins, accounts \in UpdateAccountLists, dids \in UpdateDidLists :
       authorizeUpdate(origin, accounts, dids)
  \/ startupLoaded

SpecWorker == InitWorker /\ [][NextWorker]_vars

\* C36: without localStorage, what a command has done to the authorization
\* table or to the default list before the callback of the startup load
\* runs is still there after it: no entry in memory is overwritten, an
\* origin just removed does not come back and the default list set by the
\* completion of an authorize request is kept
C36_LoadKeepsMutations ==
  [][(startupLoad.pending /\ ~startupLoad'.pending) =>
       /\ \A o \in DOMAIN authUrls : Has(authUrls', o) /\ authUrls'[o] = authUrls[o]
       /\ (lastCmd.op = "removeAuthorization" /\ lastCmd.ok) =>
            ~Has(authUrls', lastCmd.val.url)
       /\ (lastCmd.op \in {"authorizeApprove", "authReject"} /\ lastCmd.ok) =>
            defaultAuthAccountSelection' = defaultAuthAccountSelection]_vars

\* ------------------------------------------------------------ connected tabs
\* the urls of the active tabs the popup can report
TabUrlLists == {<<>>} \cup {<<u>> : u \in Urls} \cup {<<u, v>> : u, v \in Urls}

\* udateCurrentTabsUrl: each url of a known scheme is stripped and kept
\* when the authorization table has an entry for it
connectedTabs(urls, auth) ==
  SelectSeq([i \in 1..Len(urls) |->
               IF ValidUrl(urls[i]) /\ Has(auth, stripUrl(urls[i]))
                 THEN stripUrl(urls[i])
                 ELSE Undefined],
            LAMBDA origin : origin # Undefined)

\* pri(activeTabsUrl.update)
updateCurrentTabs(urls) ==
  /\ connectedTabsUrl' = connectedTabs(urls, authUrls)
  /\ lastCmd' = Cmd("updateCurrentTabs", 0, TRUE, "", urls)
  /\ UNCHANGED <<storeVars, tableVars, subjectVars, badge, windowVars, nextId,
                 invocations, keyringVars, now, didsStore, didApprovals, didCall,
                 metaStore, registry, metaLoaded, startupLoad, signatures, historyVars>>

\* pri(connectedTabsUrl.get)
getConnectedTabsUrl ==
  /\ lastCmd' = Cmd("getConnectedTabsUrl", 0, TRUE, "", connectedTabsUrl)
  /\ UNCHANGED <<storeVars, tableVars, subjectVars, badge, windowVars, nextId,
                 invocations, keyringVars, now, didsStore, didApprovals, didCall,
                 metaVars, signatures, historyVars>>

\* The connected tabs: origins are authorized and removed while the popup
\* reports the urls of the active tabs and asks for the connected ones.
NextTabs ==
  \/ \E url \in Urls : authorizeUrl(url)
  \/ \E id \in Ids, accounts \in AccountLists, dids \in DidLists :
       authorizeApprove(id, accounts, dids)
  \/ \E id \in Ids : authReject(id)
  \/ \E origin \in Origins : removeAuthorization(origin)
  \/ \E urls \in TabUrlLists : updateCurrentTabs(urls)
  \/ getConnectedTabsUrl

SpecTabs == Init /\ [][NextTabs]_vars

\* C37: in every state, every origin in the list of connected tabs has an
\* entry in the authorization table, also after authorize.remove of an
\* origin in the list
C37_ConnectedTabsAuthorized ==
  \A i \in 1..Len(connectedTabsUrl) : Has(authUrls, connectedTabsUrl[i])

====
